---- MODULE Spec2Model ----
(***************************************************************************)
(* Two-stage grammar correction pipeline of 1ordo/illiterate               *)
(* (backend/app/services): the rule client (languagetool.py), the model    *)
(* client (llm.py), the validator (validator.py) and the orchestrator      *)
(* (pipeline.py).                                                          *)
(*                                                                         *)
(* A text is a sequence of one-character strings.  An absent value         *)
(* (Python's None) is the empty sequence, a present value v is <<v>>.      *)
(* Issue fields that no operation of the pipeline reads (severity,         *)
(* context) are left out of the issue record.                              *)
(***************************************************************************)
EXTENDS Integers, Sequences, FiniteSets, TLC

VARIABLES
    pc,            \* state of process: Start, RuleChecked, NoIssues, Corrected, Final, Raised
    awaiting,      \* the backend call process is suspended in: none, rule_check, model, recheck
    request,       \* the CheckRequest given to process
    issues,        \* process's local `issues` (result of the initial rule check)
    fallback_text, \* process's local `fallback_text`
    llm_response,  \* process's local `llm_response` (absent or an LLMResponse)
    validation,    \* the ValidationResult of the validator call, when one was made
    response,      \* the CheckResponse returned by process, when it returned
    calls,         \* backend calls issued for the request, in order
    initial_check, \* how the initial check_text call ended: none, ok, lt_error, raised
    model_reply,   \* the kind of reply the model call got: none or a reply kind
    rechecked,     \* the outcome of the validator's re-check, when one returned
    twin,          \* the response to the same request with include_explanations negated
    running,       \* concurrent process calls: the state of each call of process
    pipeline,      \* the attributes of the GrammarPipeline object the calls share
    cancelled,     \* the client cancelled the request while process was suspended
    cache,         \* a GrammarCache object: ttl, max_entries, _cache, _stats, _lock
    clock,         \* the value time.time() returns
    threads,       \* the threads calling the cache: operation, position, locals
    history,       \* what the completed cache calls returned and evicted
    call,          \* inputs of a direct call of a pure operation (function specifications)
    result         \* what that call returned

vars == <<pc, awaiting, request, issues, fallback_text, llm_response,
          validation, response, calls, initial_check, model_reply, rechecked,
          twin, running, pipeline, cancelled, cache, clock, threads, history,
          call, result>>

\* The variables of the concurrent calls.
concVars == <<running, pipeline>>

\* The variables of a cancellation and of the cache.
auxVars == <<cancelled, cache, clock, threads, history>>

----------------------------------------------------------------------------
(* Bounds and program constants *)

\* Longest match list a rule-backend reply carries in the model.
MaxMatches == 2

\* Most steps (cache calls and advances of the clock) in a behaviour of the
\* cache specifications.
MaxOps == 3

\* validator.py: self.max_new_issues = 0
max_new_issues == 0

\* languagetool.py: replacements[:5]
MaxSuggestions == 5

\* response.py: RewriteSuggestion.score le=10
MaxScore == 10

None == <<>>
Some(v) == <<v>>

----------------------------------------------------------------------------
(* Python string operations on texts *)

Min(a, b) == IF a <= b THEN a ELSE b

\* s[start:end] for 0 <= start, 0 <= end: indices past the end are clipped.
Slice(s, start, end) ==
    IF start >= Len(s) \/ end <= start THEN <<>>
    ELSE SubSeq(s, start + 1, Min(end, Len(s)))

\* str.lower() on one character of the model's alphabet.
LowerChar(c) ==
    CASE c = "A" -> "a"
      [] c = "B" -> "b"
      [] c = "L" -> "l"
      [] c = "N" -> "n"
      [] OTHER -> c

Lower(s) == [i \in 1..Len(s) |-> LowerChar(s[i])]

\* str.strip() on a sequence of characters: the blanks at both ends are removed.
RECURSIVE StripLeft(_)
StripLeft(s) == IF s # <<>> /\ Head(s) = " " THEN StripLeft(Tail(s)) ELSE s

RECURSIVE StripRight(_)
StripRight(s) ==
    IF s # <<>> /\ s[Len(s)] = " " THEN StripRight(SubSeq(s, 1, Len(s) - 1)) ELSE s

Strip(s) == StripRight(StripLeft(s))

\* text.find(sub): the first 0-based index where sub occurs, -1 when none.
Find(text, sub) ==
    LET hits == {i \in 0..Len(text) : Slice(text, i, i + Len(sub)) = sub /\ i + Len(sub) <= Len(text)}
    IN IF hits = {} THEN -1 ELSE CHOOSE i \in hits : \A j \in hits : i <= j

\* All sequences over S of length at most n.
RECURSIVE SeqsUpTo(_, _)
SeqsUpTo(S, n) ==
    IF n = 0 THEN {<<>>}
    ELSE LET shorter == SeqsUpTo(S, n - 1)
         IN shorter \cup {Append(s, x) : s \in {t \in shorter : Len(t) = n - 1}, x \in S}

----------------------------------------------------------------------------
(* Rule Backend Client: languagetool.py *)

\* _map_category: provider category id -> IssueCategory value.
MapCategory(lt_category) ==
    CASE lt_category = "GRAMMAR" -> "grammar"
      [] lt_category = "TYPOS" -> "spelling"
      [] lt_category = "SPELLING" -> "spelling"
      [] lt_category = "PUNCTUATION" -> "punctuation"
      [] lt_category = "STYLE" -> "style"
      [] lt_category = "TYPOGRAPHY" -> "typography"
      [] lt_category = "CASING" -> "typography"
      [] lt_category = "CONFUSED_WORDS" -> "grammar"
      [] lt_category = "REDUNDANCY" -> "style"
      [] lt_category = "MISC" -> "other"
      [] OTHER -> "other"

\* GrammarIssue's field constraints (offset ge=0, length ge=1): constructing an
\* issue that breaks them raises pydantic's ValidationError.
IssueFieldsValid(offset, length) == offset >= 0 /\ length >= 1

\* One iteration of _parse_matches' loop: the issue built from a provider match.
IssueOfMatch(match, original_text) ==
    [offset        |-> match.offset,
     length        |-> match.length,
     message       |-> match.message,
     rule_id       |-> match.rule_id,
     category      |-> MapCategory(match.category_id),
     original_text |-> IF match.length > 0
                       THEN Slice(original_text, match.offset, match.offset + match.length)
                       ELSE <<>>,
     suggestions   |-> SubSeq(match.replacements, 1, Min(MaxSuggestions, Len(match.replacements)))]

\* _parse_matches(matches, original_text).  text_is_str is FALSE when the caller
\* passed a value that is not a string (a model reply's corrected_text of another
\* JSON type): slicing it raises, or yields a value GrammarIssue rejects.
\* Result: raised = TRUE when an exception leaves the function.
ParseMatches(matches, original_text, text_is_str) ==
    IF \E i \in 1..Len(matches) :
           \/ ~IssueFieldsValid(matches[i].offset, matches[i].length)
           \/ ~text_is_str
    THEN [raised |-> TRUE, issues |-> <<>>]
    ELSE [raised |-> FALSE,
          issues |-> [i \in 1..Len(matches) |-> IssueOfMatch(matches[i], original_text)]]

\* The HTTP outcomes check_text turns into LanguageToolError (its try block).
LTErrorKinds == {"timeout", "http_error", "network_error", "bad_json"}

\* check_text(text, language) given the provider's reply.
\* status: "ok" (issues returned), "lt_error" (LanguageToolError raised),
\* "raised" (another exception raised: _parse_matches runs outside the try).
CheckText(reply, text, text_is_str) ==
    IF reply.kind \in LTErrorKinds
    THEN [status |-> "lt_error", issues |-> <<>>]
    ELSE LET parsed == ParseMatches(reply.matches, text, text_is_str)
         IN IF parsed.raised
            THEN [status |-> "raised", issues |-> <<>>]
            ELSE [status |-> "ok", issues |-> parsed.issues]

----------------------------------------------------------------------------
(* Model Backend Client: llm.py *)

\* The outcomes of the HTTP exchange for which _call_llm raises LLMError.
LLMErrorKinds == {"timeout", "http_error", "network_error"}

\* _call_llm(prompt) given the endpoint's reply: raises LLMError, returns None
\* (no choices) or returns the content of the first choice.
CallLLM(reply) ==
    IF reply.kind \in LLMErrorKinds THEN [raised |-> TRUE, content |-> None]
    ELSE IF reply.kind = "no_choices" THEN [raised |-> FALSE, content |-> None]
    ELSE [raised |-> FALSE, content |-> Some(reply)]

\* An entry of a reply's rewrites or explanations list from which the fields can
\* be read: a JSON object whose values have the types the constructors take.
\* Any other entry (a string, a number, an object with a value of another type)
\* is the record [malformed |-> ...].
WellFormedEntry(entry) == "malformed" \notin DOMAIN entry

\* RewriteSuggestion(text, tone, score=float(...)): the constructor raises unless
\* 0 <= score <= 10; _parse_response drops the entry then, as it drops an entry
\* that is not well formed.
RewriteValid(rw) == WellFormedEntry(rw) /\ rw.score >= 0 /\ rw.score <= MaxScore

RECURSIVE ParseRewrites(_)
ParseRewrites(raw) ==
    IF raw = <<>> THEN <<>>
    ELSE LET rw == Head(raw)
         IN (IF RewriteValid(rw) THEN <<rw>> ELSE <<>>) \o ParseRewrites(Tail(raw))

\* One explanation entry: original defaults to span.
ParseExplanation(exp) ==
    [span      |-> exp.span,
     original  |-> IF exp.has_original THEN exp.original ELSE exp.span,
     corrected |-> exp.corrected,
     reason    |-> exp.reason]

\* The explanations loop: an entry that makes Explanation(...) or exp.get raise
\* is skipped.
RECURSIVE ParseExplanations(_)
ParseExplanations(raw) ==
    IF raw = <<>> THEN <<>>
    ELSE (IF WellFormedEntry(Head(raw)) THEN <<ParseExplanation(Head(raw))>> ELSE <<>>)
         \o ParseExplanations(Tail(raw))

\* The contents for which the body of _parse_response ends in an exception:
\* json.loads fails (bad_json), or the value of "rewrites" or "explanations" is
\* not a list and the loop over it fails (bad_lists).
ParseFailureKinds == {"bad_json", "bad_lists"}

\* Mutant of ParseResponseOutcome: only JSONDecodeError is caught.
ParseResponseOutcome_OnlyJSONDecodeError(content, original_text) ==
    IF content.kind = "bad_lists" THEN [raised |-> TRUE, value |-> None]
    ELSE IF content.kind \in {"no_json", "bad_json"} THEN [raised |-> FALSE, value |-> None]
    ELSE [raised |-> FALSE,
          value  |-> Some([corrected_text   |-> IF content.has_corrected
                                                THEN content.corrected_text
                                                ELSE original_text,
                           corrected_is_str |-> IF content.has_corrected
                                                THEN content.corrected_is_str
                                                ELSE TRUE,
                           rewrites         |-> ParseRewrites(content.rewrites),
                           explanations     |-> ParseExplanations(content.explanations)])]

\* _parse_response(response_text, original_text) with its try block: None when
\* the content holds no {...} span, and None when the body raised (both except
\* clauses return None); otherwise the LLMResponse.  corrected_text is taken
\* from the object as it is, whatever its JSON type (corrected_is_str).
ParseResponseOutcome(content, original_text) ==
    IF content.kind = "no_json" THEN [raised |-> FALSE, value |-> None]
    ELSE IF content.kind \in ParseFailureKinds THEN [raised |-> FALSE, value |-> None]
    ELSE [raised |-> FALSE,
          value  |-> Some([corrected_text   |-> IF content.has_corrected
                                                THEN content.corrected_text
                                                ELSE original_text,
                           corrected_is_str |-> IF content.has_corrected
                                                THEN content.corrected_is_str
                                                ELSE TRUE,
                           rewrites         |-> ParseRewrites(content.rewrites),
                           explanations     |-> ParseExplanations(content.explanations)])]

\* What _parse_response returns.
ParseResponse(content, original_text) == ParseResponseOutcome(content, original_text).value

\* generate_correction / generate_rewrites_only after the prompt is built: every
\* exception of the call is caught and becomes None.
GenerateCorrection(reply, text) ==
    LET called == CallLLM(reply)
    IN IF called.raised THEN None
       ELSE IF called.content = None THEN None
       ELSE ParseResponse(called.content[1], text)

----------------------------------------------------------------------------
(* Validator: validator.py *)

\* Mutant of IsSimilarIssue: an issue is similar only to one at its own offset.
IsSimilarIssue_SameOffset(issue, original_issues) ==
    \E k \in 1..Len(original_issues) :
        /\ issue.offset = original_issues[k].offset
        /\ \/ /\ issue.rule_id = original_issues[k].rule_id
              /\ Lower(issue.original_text) = Lower(original_issues[k].original_text)
           \/ issue.original_text = original_issues[k].original_text

\* _is_similar_issue(issue, original_issues)
IsSimilarIssue(issue, original_issues) ==
    \E k \in 1..Len(original_issues) :
        \/ /\ issue.rule_id = original_issues[k].rule_id
           /\ Lower(issue.original_text) = Lower(original_issues[k].original_text)
        \/ issue.original_text = original_issues[k].original_text

\* ignore_categories = {"STYLE", "TYPOGRAPHY"}, compared with category.value.upper()
IgnoredCategory(category) == category \in {"style", "typography"}

\* The loop of validate_correction that collects truly_new_issues.
RECURSIVE TrulyNewIssues(_, _, _)
TrulyNewIssues(new_issues, original_issues, strict) ==
    IF new_issues = <<>> THEN <<>>
    ELSE LET issue == Head(new_issues)
             rest  == TrulyNewIssues(Tail(new_issues), original_issues, strict)
         IN IF IsSimilarIssue(issue, original_issues) THEN rest
            ELSE IF ~strict /\ IgnoredCategory(issue.category) THEN rest
            ELSE <<issue>> \o rest

\* Mutant of MoreIssuesThanOriginal: any other count than the original's rejects.
MoreIssuesThanOriginal_Differs(new_issues, original_issues) ==
    Len(new_issues) # Len(original_issues)

\* Mutant of MoreIssuesThanOriginal: an equal count already rejects.
MoreIssuesThanOriginal_AtLeast(new_issues, original_issues) ==
    Len(new_issues) >= Len(original_issues)

\* The second test of validate_correction: the re-check found more issues than
\* the original check.
MoreIssuesThanOriginal(new_issues, original_issues) ==
    Len(new_issues) > Len(original_issues)

\* Mutant of ValidateCorrection: a failed re-check accepts the candidate.
ValidateCorrection_AcceptOnError(checked, original_issues, strict) ==
    IF checked.status = "raised"
    THEN [raised |-> TRUE, is_valid |-> FALSE, new_issues |-> <<>>, message |-> "raised"]
    ELSE IF checked.status = "lt_error"
    THEN [raised |-> FALSE, is_valid |-> TRUE, new_issues |-> <<>>,
          message |-> "Validation failed"]
    ELSE LET truly_new == TrulyNewIssues(checked.issues, original_issues, strict)
         IN IF Len(truly_new) > max_new_issues
            THEN [raised |-> FALSE, is_valid |-> FALSE, new_issues |-> truly_new,
                  message |-> "LLM introduced new issues"]
            ELSE IF MoreIssuesThanOriginal(checked.issues, original_issues)
            THEN [raised |-> FALSE, is_valid |-> FALSE, new_issues |-> checked.issues,
                  message |-> "Correction did not reduce error count"]
            ELSE [raised |-> FALSE, is_valid |-> TRUE, new_issues |-> truly_new,
                  message |-> "Validation passed"]

\* validate_correction(corrected_text, original_issues, language, strict) given
\* the outcome `checked` of its re-check (CheckText on corrected_text).
\* raised = TRUE when the re-check raised something else than LanguageToolError.
ValidateCorrection(checked, original_issues, strict) ==
    IF checked.status = "raised"
    THEN [raised |-> TRUE, is_valid |-> FALSE, new_issues |-> <<>>, message |-> "raised"]
    ELSE IF checked.status = "lt_error"
    THEN [raised |-> FALSE, is_valid |-> FALSE, new_issues |-> <<>>,
          message |-> "Validation failed"]
    ELSE LET new_issues == checked.issues
             truly_new  == TrulyNewIssues(new_issues, original_issues, strict)
         IN IF Len(truly_new) > max_new_issues
            THEN [raised |-> FALSE, is_valid |-> FALSE, new_issues |-> truly_new,
                  message |-> "LLM introduced new issues"]
            ELSE IF MoreIssuesThanOriginal(new_issues, original_issues)
            THEN [raised |-> FALSE, is_valid |-> FALSE, new_issues |-> new_issues,
                  message |-> "Correction did not reduce error count"]
            ELSE [raised |-> FALSE, is_valid |-> TRUE, new_issues |-> truly_new,
                  message |-> "Validation passed"]

\* Mutant of ChooseText: the two texts are swapped.
ChooseText_Swapped(llm_text, fallback_text_, verdict) ==
    IF verdict.is_valid THEN [text |-> fallback_text_, used_fallback |-> FALSE]
    ELSE [text |-> llm_text, used_fallback |-> TRUE]

\* The choice validate_and_choose makes from the verdict.
ChooseText(llm_text, fallback_text_, verdict) ==
    IF verdict.is_valid THEN [text |-> llm_text, used_fallback |-> FALSE]
    ELSE [text |-> fallback_text_, used_fallback |-> TRUE]

\* validate_and_choose(llm_text, fallback_text, original_issues, language):
\* (chosen_text, used_fallback, validation); strict keeps its default, True.
ValidateAndChoose(llm_text, fallback_text_, original_issues, checked) ==
    LET verdict == ValidateCorrection(checked, original_issues, TRUE)
        chosen  == ChooseText(llm_text, fallback_text_, verdict)
    IN [raised        |-> verdict.raised,
        chosen_text   |-> chosen.text,
        used_fallback |-> chosen.used_fallback,
        validation    |-> verdict]

----------------------------------------------------------------------------
(* Pipeline helpers: pipeline.py *)

\* Mutant of InsertByOffsetDesc: the sort is ascending (reverse=True forgotten).
InsertByOffsetAsc(sorted, x) ==
    LET k == Cardinality({i \in 1..Len(sorted) : sorted[i].offset <= x.offset})
    IN SubSeq(sorted, 1, k) \o <<x>> \o SubSeq(sorted, k + 1, Len(sorted))

\* sorted(issues, key=offset, reverse=True): a stable sort, so issues with the
\* same offset keep their input order.  One insertion step: x goes behind every
\* element whose offset is at least its own.
InsertByOffsetDesc(sorted, x) ==
    LET k == Cardinality({i \in 1..Len(sorted) : sorted[i].offset >= x.offset})
    IN SubSeq(sorted, 1, k) \o <<x>> \o SubSeq(sorted, k + 1, Len(sorted))

RECURSIVE SortIssuesFrom(_, _)
SortIssuesFrom(sorted, rest) ==
    IF rest = <<>> THEN sorted
    ELSE SortIssuesFrom(InsertByOffsetDesc(sorted, Head(rest)), Tail(rest))

SortedIssues(issue_list) == SortIssuesFrom(<<>>, issue_list)

\* The body of the loop of _apply_rule_based_fixes for one issue.
ApplyFix(text, issue) ==
    IF issue.suggestions # <<>>
    THEN Slice(text, 0, issue.offset) \o issue.suggestions[1]
         \o Slice(text, issue.offset + issue.length, Len(text))
    ELSE text

RECURSIVE ApplyFixes(_, _)
ApplyFixes(text, sorted_issues) ==
    IF sorted_issues = <<>> THEN text
    ELSE ApplyFixes(ApplyFix(text, Head(sorted_issues)), Tail(sorted_issues))

\* _apply_rule_based_fixes(text, issues)
ApplyRuleBasedFixes(text, issue_list) == ApplyFixes(text, SortedIssues(issue_list))

\* Mutant of GenerateBasicExplanations: the last suggestion is used and an issue
\* without suggestions gets an explanation too.
GenerateBasicExplanations_LastSuggestion(issue_list) ==
    [k \in 1..Len(issue_list) |->
        [span      |-> issue_list[k].original_text,
         original  |-> issue_list[k].original_text,
         corrected |-> IF issue_list[k].suggestions # <<>>
                       THEN issue_list[k].suggestions[Len(issue_list[k].suggestions)]
                       ELSE <<>>,
         reason    |-> issue_list[k].message]]

\* _generate_basic_explanations(issues)
RECURSIVE GenerateBasicExplanations(_)
GenerateBasicExplanations(issue_list) ==
    IF issue_list = <<>> THEN <<>>
    ELSE LET issue == Head(issue_list)
         IN (IF issue.suggestions # <<>>
             THEN <<[span      |-> issue.original_text,
                     original  |-> issue.original_text,
                     corrected |-> issue.suggestions[1],
                     reason    |-> issue.message]>>
             ELSE <<>>) \o GenerateBasicExplanations(Tail(issue_list))

\* _explanations_to_issues(text, explanations)
RECURSIVE ExplanationsToIssues(_, _)
ExplanationsToIssues(text, explanations) ==
    IF explanations = <<>> THEN <<>>
    ELSE LET exp   == Head(explanations)
             found == Find(text, exp.original)
             offset == IF found = -1 THEN 0 ELSE found
         IN (IF exp.original # <<>> /\ exp.corrected # <<>> /\ exp.original # exp.corrected
             THEN <<[offset        |-> offset,
                     length        |-> Len(exp.original),
                     message       |-> IF exp.reason # "" THEN exp.reason
                                       ELSE "LLM detected issue",
                     rule_id       |-> "LLM_DETECTED",
                     category      |-> "grammar",
                     original_text |-> exp.original,
                     suggestions   |-> <<exp.corrected>>]>>
             ELSE <<>>) \o ExplanationsToIssues(text, Tail(explanations))

\* Mutant of CheckResponse: issue_count keeps its default, 0.
CheckResponse_DefaultCount(original_text, corrected_text, issue_list, rewrites, explanations, validation_passed, fallback_used, language) ==
    [original_text     |-> original_text,
     corrected_text    |-> corrected_text,
     issues            |-> issue_list,
     rewrites          |-> rewrites,
     explanations      |-> explanations,
     validation_passed |-> validation_passed,
     fallback_used     |-> fallback_used,
     language          |-> language,
     issue_count       |-> 0]

\* Mutant of CheckResponse: original_text is given the corrected text.
CheckResponse_OriginalFromCorrected(original_text, corrected_text, issue_list, rewrites, explanations, validation_passed, fallback_used, language) ==
    [original_text     |-> corrected_text,
     corrected_text    |-> corrected_text,
     issues            |-> issue_list,
     rewrites          |-> rewrites,
     explanations      |-> explanations,
     validation_passed |-> validation_passed,
     fallback_used     |-> fallback_used,
     language          |-> language,
     issue_count       |-> Len(issue_list)]

\* CheckResponse(...): issue_count is set by model_post_init.
CheckResponse(original_text, corrected_text, issue_list, rewrites, explanations, validation_passed, fallback_used, language) ==
    [original_text     |-> original_text,
     corrected_text    |-> corrected_text,
     issues            |-> issue_list,
     rewrites          |-> rewrites,
     explanations      |-> explanations,
     validation_passed |-> validation_passed,
     fallback_used     |-> fallback_used,
     language          |-> language,
     issue_count       |-> Len(issue_list)]

----------------------------------------------------------------------------
(* Inputs: requests and backend replies *)

Texts == {<<"a", "A">>, <<"A">>}

Requests ==
    [text : Texts, language : {"nl"}, mode : {"strict", "style"},
     tone : {"neutral"}, include_explanations : BOOLEAN]

\* Provider matches of the initial check: two spans with a suggestion at
\* different offsets, a longer span at an offset already used, a span without
\* a suggestion, and a match of length 0.
InitialMatches ==
    {[offset |-> 0, length |-> 1, message |-> "m1", rule_id |-> "R1",
      category_id |-> "GRAMMAR", replacements |-> << <<"b", "b">> >>],
     [offset |-> 1, length |-> 1, message |-> "m2", rule_id |-> "R2",
      category_id |-> "TYPOS", replacements |-> << <<"c">> >>],
     [offset |-> 0, length |-> 2, message |-> "m3", rule_id |-> "R1",
      category_id |-> "STYLE", replacements |-> << <<"c">>, <<"b">> >>],
     [offset |-> 1, length |-> 1, message |-> "m4", rule_id |-> "R1",
      category_id |-> "CASING", replacements |-> <<>>],
     [offset |-> 0, length |-> 0, message |-> "m5", rule_id |-> "R1",
      category_id |-> "MISC", replacements |-> <<>>]}

\* Provider matches of a re-check; the first is also a match of the initial
\* check, as a backend that answers the same text twice repeats it.
RecheckMatches ==
    {[offset |-> 0, length |-> 1, message |-> "m1", rule_id |-> "R1",
      category_id |-> "GRAMMAR", replacements |-> << <<"b", "b">> >>],
     [offset |-> 1, length |-> 1, message |-> "n2", rule_id |-> "R2",
      category_id |-> "TYPOS", replacements |-> <<>>],
     [offset |-> 0, length |-> 0, message |-> "n3", rule_id |-> "R1",
      category_id |-> "MISC", replacements |-> <<>>]}

LTFailures == {[kind |-> k, matches |-> <<>>] : k \in LTErrorKinds}

LTReplies(matchSet) ==
    LTFailures \cup {[kind |-> "ok", matches |-> ms] : ms \in SeqsUpTo(matchSet, MaxMatches)}

\* Texts a model reply gives as corrected_text.
ModelTexts == {<<"a", "A">>, <<"b", "b", "c">>, <<"c">>}

RewriteLists ==
    {<<>>,
     <<[text |-> <<"c">>, tone |-> "formal", score |-> 8]>>,
     <<[text |-> <<"b">>, tone |-> "casual", score |-> 11],
       [text |-> <<"c">>, tone |-> "formal", score |-> 8]>>}

ExplanationLists ==
    {<<>>,
     <<[span |-> <<"a">>, has_original |-> FALSE, original |-> <<>>,
        corrected |-> <<"b">>, reason |-> "r1"]>>}

NoContent(k) ==
    [kind |-> k, has_corrected |-> FALSE, corrected_is_str |-> TRUE,
     corrected_text |-> <<>>, rewrites |-> <<>>, explanations |-> <<>>]

LLMFailureKinds == LLMErrorKinds \cup {"no_choices", "no_json"} \cup ParseFailureKinds

LLMReplies ==
    {NoContent(k) : k \in LLMFailureKinds}
    \cup {[kind |-> "json", has_corrected |-> FALSE, corrected_is_str |-> TRUE,
           corrected_text |-> <<>>, rewrites |-> rw, explanations |-> ex] :
             rw \in RewriteLists, ex \in ExplanationLists}
    \cup {[kind |-> "json", has_corrected |-> TRUE, corrected_is_str |-> TRUE,
           corrected_text |-> t, rewrites |-> rw, explanations |-> ex] :
             t \in ModelTexts, rw \in RewriteLists, ex \in ExplanationLists}
    \cup {[kind |-> "json", has_corrected |-> TRUE, corrected_is_str |-> FALSE,
           corrected_text |-> <<>>, rewrites |-> rw, explanations |-> ex] :
             rw \in RewriteLists, ex \in ExplanationLists}

----------------------------------------------------------------------------
(* Pipeline Orchestrator: GrammarPipeline.process *)

\* Mutant of Gate: the explanations are returned whatever the request asked.
Gate_Ungated(req, explanations) == explanations

\* explanations if include_explanations else []
Gate(req, explanations) == IF req.include_explanations THEN explanations ELSE <<>>

\* The request of the twin run: the same request with include_explanations
\* negated.  process reads include_explanations only where it builds a response,
\* so the twin run takes the same steps on the same backend replies.
Twin(req) == [req EXCEPT !.include_explanations = ~req.include_explanations]

\* Mutant of RuleFailedResponse: the flags keep CheckResponse's defaults.
RuleFailedResponse_DefaultFlags(req) ==
    CheckResponse(req.text, req.text, <<>>, <<>>, <<>>, TRUE, FALSE, req.language)

\* The response of the except LanguageToolError branch.
RuleFailedResponse(req) ==
    CheckResponse(req.text, req.text, <<>>, <<>>, <<>>, FALSE, TRUE, req.language)

\* Mutant of NoIssuesDefaultResponse: the flags of the rule-failure response.
NoIssuesDefaultResponse_FallbackFlags(req) ==
    CheckResponse(req.text, req.text, <<>>, <<>>, <<>>, FALSE, TRUE, req.language)

\* The response at the end of the no-issues branch (model absent or an exception).
NoIssuesDefaultResponse(req) ==
    CheckResponse(req.text, req.text, <<>>, <<>>, <<>>, TRUE, FALSE, req.language)

\* Mutant of NoIssuesCorrected: a rejected model text is kept.
NoIssuesCorrected_KeepModelText(text, llm_text, verdict) == llm_text

\* The no-issues branch's `corrected` after the validation of a model text that
\* differs from the original: `if not validation.is_valid: corrected = text`.
NoIssuesCorrected(text, llm_text, verdict) ==
    IF verdict.is_valid THEN llm_text ELSE text

\* The response built inside `if llm_response:` of the no-issues branch.
NoIssuesResponse(req, llm, llm_found_issues, corrected) ==
    CheckResponse(req.text, corrected,
                  IF llm_found_issues THEN ExplanationsToIssues(req.text, llm.explanations)
                  ELSE <<>>,
                  IF req.mode = "style" THEN llm.rewrites ELSE <<>>,
                  Gate(req, llm.explanations),
                  TRUE, FALSE, req.language)

\* Mutant of ModelFailedResponse: validation_passed keeps CheckResponse's default.
ModelFailedResponse_ValidationPassed(req, issue_list, fallback_text_) ==
    CheckResponse(req.text, fallback_text_, issue_list, <<>>,
                  Gate(req, GenerateBasicExplanations(issue_list)),
                  TRUE, TRUE, req.language)

\* Mutant of ModelFailedResponse: the original text is returned, not the fallback.
ModelFailedResponse_OriginalText(req, issue_list, fallback_text_) ==
    CheckResponse(req.text, req.text, issue_list, <<>>,
                  Gate(req, GenerateBasicExplanations(issue_list)),
                  FALSE, TRUE, req.language)

\* The response of the corrected branch when the model gave nothing
\* (llm_response is None, or LLMError).
ModelFailedResponse(req, issue_list, fallback_text_) ==
    CheckResponse(req.text, fallback_text_, issue_list, <<>>,
                  Gate(req, GenerateBasicExplanations(issue_list)),
                  FALSE, TRUE, req.language)

\* Mutant of CorrectedResponse: the model's rewrites are kept when the fallback
\* is used.
CorrectedResponse_KeepRewrites(req, issue_list, llm, chosen) ==
    CheckResponse(req.text, chosen.chosen_text, issue_list,
                  llm.rewrites,
                  Gate(req, IF ~chosen.used_fallback THEN llm.explanations
                            ELSE GenerateBasicExplanations(issue_list)),
                  chosen.validation.is_valid, chosen.used_fallback, req.language)

\* Mutant of CorrectedResponse: the response carries the issues the validator
\* reports, not those of the initial check.
CorrectedResponse_ValidatorIssues(req, issue_list, llm, chosen) ==
    CheckResponse(req.text, chosen.chosen_text, chosen.validation.new_issues,
                  IF ~chosen.used_fallback THEN llm.rewrites ELSE <<>>,
                  Gate(req, IF ~chosen.used_fallback THEN llm.explanations
                            ELSE GenerateBasicExplanations(issue_list)),
                  chosen.validation.is_valid, chosen.used_fallback, req.language)

\* Mutant of CorrectedResponse: the response does not carry the rule issues.
CorrectedResponse_NoIssueList(req, issue_list, llm, chosen) ==
    CheckResponse(req.text, chosen.chosen_text, <<>>,
                  IF ~chosen.used_fallback THEN llm.rewrites ELSE <<>>,
                  Gate(req, IF ~chosen.used_fallback THEN llm.explanations
                            ELSE GenerateBasicExplanations(issue_list)),
                  chosen.validation.is_valid, chosen.used_fallback, req.language)

\* The response of the corrected branch after validate_and_choose returned
\* `chosen`.
CorrectedResponse(req, issue_list, llm, chosen) ==
    CheckResponse(req.text, chosen.chosen_text, issue_list,
                  IF ~chosen.used_fallback THEN llm.rewrites ELSE <<>>,
                  Gate(req, IF ~chosen.used_fallback THEN llm.explanations
                            ELSE GenerateBasicExplanations(issue_list)),
                  chosen.validation.is_valid, chosen.used_fallback, req.language)

Init ==
    /\ pc = "Start"
    /\ awaiting = "none"
    /\ request \in Requests
    /\ issues = <<>>
    /\ fallback_text = <<>>
    /\ llm_response = None
    /\ validation = None
    /\ response = None
    /\ calls = <<>>
    /\ initial_check = "none"
    /\ model_reply = "none"
    /\ rechecked = None
    /\ twin = None
    /\ running = None /\ pipeline = None
    /\ cancelled = FALSE /\ cache = None /\ clock = 0 /\ threads = None /\ history = None
    /\ call = None
    /\ result = None

\* Mutant of CallRuleBackend: the model is called before the rule check.
CallRuleBackend_ModelFirst ==
    /\ pc = "Start" /\ awaiting = "none"
    /\ awaiting' = "rule_check"
    /\ calls' = Append(calls, "model")
    /\ UNCHANGED <<pc, request, issues, fallback_text, llm_response, validation,
                   response, initial_check, model_reply, rechecked, twin, call, result, concVars, auxVars>>

\* process up to its first suspension: the initial rule check is issued.
CallRuleBackend ==
    /\ pc = "Start" /\ awaiting = "none"
    /\ awaiting' = "rule_check"
    /\ calls' = Append(calls, "rule_check")
    /\ UNCHANGED <<pc, request, issues, fallback_text, llm_response, validation,
                   response, initial_check, model_reply, rechecked, twin, call, result, concVars, auxVars>>

\* The initial check returns or raises.
RuleReply ==
    /\ pc = "Start" /\ awaiting = "rule_check"
    /\ \E reply \in LTReplies(InitialMatches) :
         LET checked == CheckText(reply, request.text, TRUE)
         IN /\ awaiting' = "none"
            /\ initial_check' = checked.status
            /\ CASE checked.status = "lt_error" ->
                      /\ pc' = "Final"
                      /\ response' = Some(RuleFailedResponse(request))
                      /\ twin' = Some(RuleFailedResponse(Twin(request)))
                      /\ issues' = issues
                 [] checked.status = "raised" ->
                      /\ pc' = "Raised"
                      /\ UNCHANGED <<response, twin, issues>>
                 [] OTHER ->
                      /\ pc' = "RuleChecked"
                      /\ issues' = checked.issues
                      /\ UNCHANGED <<response, twin>>
    /\ UNCHANGED <<request, fallback_text, llm_response, validation, calls,
                   model_reply, rechecked, call, result, concVars, auxVars>>

\* `if not issues:` and, in the corrected branch, the fallback text; then the
\* model call is issued.
Branch ==
    /\ pc = "RuleChecked"
    /\ IF issues = <<>>
       THEN pc' = "NoIssues" /\ fallback_text' = fallback_text
       ELSE pc' = "Corrected" /\ fallback_text' = ApplyRuleBasedFixes(request.text, issues)
    /\ awaiting' = "model"
    /\ calls' = Append(calls, "model")
    /\ UNCHANGED <<request, issues, llm_response, validation, response,
                   initial_check, model_reply, rechecked, twin, call, result, concVars, auxVars>>

\* No-issues branch: generate_rewrites_only returns.
ModelReplyNoIssues ==
    /\ pc = "NoIssues" /\ awaiting = "model"
    /\ \E reply \in LLMReplies :
         LET r == GenerateCorrection(reply, request.text)
         IN /\ model_reply' = reply.kind
            /\ IF r = None
               THEN /\ pc' = "Final" /\ awaiting' = "none"
                    /\ response' = Some(NoIssuesDefaultResponse(request))
                    /\ twin' = Some(NoIssuesDefaultResponse(Twin(request)))
                    /\ UNCHANGED <<llm_response, calls>>
               ELSE LET llm == r[1]
                        llm_found_issues ==
                            ~llm.corrected_is_str \/ llm.corrected_text # request.text
                    IN /\ llm_response' = r
                       /\ IF llm_found_issues
                          THEN /\ awaiting' = "recheck"
                               /\ calls' = Append(calls, "recheck")
                               /\ UNCHANGED <<pc, response, twin>>
                          ELSE /\ pc' = "Final" /\ awaiting' = "none"
                               /\ response' = Some(NoIssuesResponse(request, llm, FALSE,
                                                                    request.text))
                               /\ twin' = Some(NoIssuesResponse(Twin(request), llm, FALSE,
                                                                request.text))
                               /\ calls' = calls
    /\ UNCHANGED <<request, issues, fallback_text, validation, initial_check,
                   rechecked, call, result, concVars, auxVars>>

\* No-issues branch: the validator's re-check returns or raises; every exception
\* is caught by `except Exception`.
RecheckReplyNoIssues ==
    /\ pc = "NoIssues" /\ awaiting = "recheck"
    /\ \E reply \in LTReplies(RecheckMatches) :
         LET llm     == llm_response[1]
             checked == CheckText(reply, llm.corrected_text, llm.corrected_is_str)
             verdict == ValidateCorrection(checked, <<>>, TRUE)
         IN /\ pc' = "Final" /\ awaiting' = "none"
            /\ rechecked' = Some(checked)
            /\ IF verdict.raised
               THEN /\ validation' = None
                    /\ response' = Some(NoIssuesDefaultResponse(request))
                    /\ twin' = Some(NoIssuesDefaultResponse(Twin(request)))
               ELSE /\ validation' = Some(verdict)
                    /\ IF verdict.is_valid /\ ~llm.corrected_is_str
                       THEN /\ response' = Some(NoIssuesDefaultResponse(request))
                            /\ twin' = Some(NoIssuesDefaultResponse(Twin(request)))
                       ELSE LET corrected ==
                                    NoIssuesCorrected(request.text, llm.corrected_text, verdict)
                            IN /\ response' = Some(NoIssuesResponse(request, llm, TRUE,
                                                                    corrected))
                               /\ twin' = Some(NoIssuesResponse(Twin(request), llm, TRUE,
                                                                corrected))
    /\ UNCHANGED <<request, issues, fallback_text, llm_response, calls,
                   initial_check, model_reply, call, result, concVars, auxVars>>

\* Mutant of ModelReplyCorrected: a failed model call is issued again.
ModelReplyCorrected_RetryOnFailure ==
    /\ pc = "Corrected" /\ awaiting = "model"
    /\ \E reply \in LLMReplies :
         LET r == GenerateCorrection(reply, request.text)
         IN /\ model_reply' = reply.kind
            /\ IF r = None
               THEN /\ calls' = Append(calls, "model")
                    /\ UNCHANGED <<pc, awaiting, response, twin, llm_response>>
               ELSE /\ llm_response' = r
                    /\ awaiting' = "recheck"
                    /\ calls' = Append(calls, "recheck")
                    /\ UNCHANGED <<pc, response, twin>>
    /\ UNCHANGED <<request, issues, fallback_text, validation, initial_check,
                   rechecked, call, result, concVars, auxVars>>

\* Corrected branch: generate_correction returns.
ModelReplyCorrected ==
    /\ pc = "Corrected" /\ awaiting = "model"
    /\ \E reply \in LLMReplies :
         LET r == GenerateCorrection(reply, request.text)
         IN /\ model_reply' = reply.kind
            /\ IF r = None
               THEN /\ pc' = "Final" /\ awaiting' = "none"
                    /\ response' = Some(ModelFailedResponse(request, issues, fallback_text))
                    /\ twin' = Some(ModelFailedResponse(Twin(request), issues, fallback_text))
                    /\ UNCHANGED <<llm_response, calls>>
               ELSE /\ llm_response' = r
                    /\ awaiting' = "recheck"
                    /\ calls' = Append(calls, "recheck")
                    /\ UNCHANGED <<pc, response, twin>>
    /\ UNCHANGED <<request, issues, fallback_text, validation, initial_check,
                   rechecked, call, result, concVars, auxVars>>

\* Corrected branch: validate_and_choose returns or raises; only LLMError is
\* caught here, and building a CheckResponse whose corrected_text is not a
\* string raises.
RecheckReplyCorrected ==
    /\ pc = "Corrected" /\ awaiting = "recheck"
    /\ \E reply \in LTReplies(RecheckMatches) :
         LET llm     == llm_response[1]
             checked == CheckText(reply, llm.corrected_text, llm.corrected_is_str)
             chosen  == ValidateAndChoose(llm.corrected_text, fallback_text, issues, checked)
         IN /\ awaiting' = "none"
            /\ rechecked' = Some(checked)
            /\ IF chosen.raised
               THEN pc' = "Raised" /\ UNCHANGED <<validation, response, twin>>
               ELSE /\ validation' = Some(chosen.validation)
                    /\ IF ~chosen.used_fallback /\ ~llm.corrected_is_str
                       THEN pc' = "Raised" /\ UNCHANGED <<response, twin>>
                       ELSE /\ pc' = "Final"
                            /\ response' = Some(CorrectedResponse(request, issues, llm, chosen))
                            /\ twin' = Some(CorrectedResponse(Twin(request), issues, llm,
                                                              chosen))
    /\ UNCHANGED <<request, issues, fallback_text, llm_response, calls,
                   initial_check, model_reply, call, result, concVars, auxVars>>

Next ==
    \/ CallRuleBackend
    \/ RuleReply
    \/ Branch
    \/ ModelReplyNoIssues
    \/ RecheckReplyNoIssues
    \/ ModelReplyCorrected
    \/ RecheckReplyCorrected

Spec == Init /\ [][Next]_vars

\* Every backend call returns, fails or times out, and a call of process that is
\* not suspended runs on.
SpecLive == Spec /\ WF_vars(Next)

----------------------------------------------------------------------------
(* Direct calls of the validator: validate_correction and validate_and_choose
   applied to inputs drawn from bounded sets. *)

ValidatorIssue(offset, rule_id, span, category) ==
    [offset |-> offset, length |-> Len(span), message |-> "m", rule_id |-> rule_id,
     category |-> category, original_text |-> span, suggestions |-> <<>>]

\* Issues of a re-check.
NewIssueSamples ==
    {ValidatorIssue(0, "R1", <<"a">>, "grammar"),
     ValidatorIssue(3, "R1", <<"A">>, "grammar"),
     ValidatorIssue(0, "R2", <<"a">>, "style"),
     ValidatorIssue(1, "R2", <<"b">>, "typography"),
     ValidatorIssue(1, "R1", <<"b">>, "spelling")}

\* Issues of the original check.
OriginalIssueSamples ==
    {ValidatorIssue(0, "R1", <<"a">>, "grammar"),
     ValidatorIssue(1, "R2", <<"A">>, "spelling"),
     ValidatorIssue(1, "R2", <<"b">>, "grammar")}

RecheckOutcomes ==
    {[status |-> "ok", issues |-> ns] : ns \in SeqsUpTo(NewIssueSamples, MaxMatches)}
    \cup {[status |-> "lt_error", issues |-> <<>>], [status |-> "raised", issues |-> <<>>]}

ValidatorCalls ==
    [llm_text : {<<"b">>}, fallback_text : {<<"c">>},
     original_issues : SeqsUpTo(OriginalIssueSamples, MaxMatches),
     checked : RecheckOutcomes, strict : BOOLEAN]

InitValidator ==
    /\ call \in {Some(c) : c \in ValidatorCalls}
    /\ result = None
    /\ pc = "Function" /\ awaiting = "none"
    /\ request = None /\ issues = <<>> /\ fallback_text = <<>>
    /\ llm_response = None /\ validation = None /\ response = None
    /\ calls = <<>> /\ initial_check = "none" /\ model_reply = "none"
    /\ rechecked = None /\ twin = None
    /\ running = None /\ pipeline = None
    /\ cancelled = FALSE /\ cache = None /\ clock = 0 /\ threads = None /\ history = None

procVars == <<pc, awaiting, request, issues, fallback_text, llm_response,
              validation, response, calls, initial_check, model_reply, rechecked, twin>>

\* validate_correction(corrected_text, original_issues, language, strict)
DoValidateCorrection ==
    /\ call # None /\ result = None
    /\ result' = Some([fn |-> "validate_correction",
                       verdict |-> ValidateCorrection(call[1].checked,
                                       call[1].original_issues, call[1].strict)])
    /\ UNCHANGED <<call, procVars, concVars, auxVars>>

\* validate_and_choose(llm_text, fallback_text, original_issues, language)
DoValidateAndChoose ==
    /\ call # None /\ result = None /\ call[1].strict
    /\ result' = Some([fn |-> "validate_and_choose",
                       chosen |-> ValidateAndChoose(call[1].llm_text, call[1].fallback_text,
                                      call[1].original_issues, call[1].checked)])
    /\ UNCHANGED <<call, procVars, concVars, auxVars>>

\* _is_similar_issue(issue, original_issues) on one issue of the re-check
DoIsSimilarIssue ==
    /\ call # None /\ result = None
    /\ call[1].checked.status = "ok"
    /\ \E i \in 1..Len(call[1].checked.issues) :
         result' = Some([fn |-> "is_similar_issue",
                         issue |-> call[1].checked.issues[i],
                         similar |-> IsSimilarIssue(call[1].checked.issues[i],
                                                    call[1].original_issues)])
    /\ UNCHANGED <<call, procVars, concVars, auxVars>>

NextValidator == DoValidateCorrection \/ DoValidateAndChoose \/ DoIsSimilarIssue

SpecValidator == InitValidator /\ [][NextValidator]_vars

----------------------------------------------------------------------------
(* Direct calls of the rule client's _parse_matches on provider matches whose
   replacement lists are empty, short, longer than the limit, and repeat a
   value. *)

ReplacementLists ==
    {<<>>,
     << <<"b">> >>,
     << <<"b">>, <<"c">> >>,
     << <<"c">>, <<"b">> >>,
     << <<"b">>, <<"b">> >>,
     << <<"b">>, <<"c">>, <<"d">>, <<"e">>, <<"f">> >>,
     << <<"b">>, <<"c">>, <<"d">>, <<"e">>, <<"f">>, <<"g">> >>,
     << <<"g">>, <<"f">>, <<"e">>, <<"d">>, <<"c">>, <<"b">>, <<"a">> >>,
     << <<"b">>, <<"c">>, <<"d">>, <<"e">>, <<"f">>, <<"b">> >>}

ClientMatches ==
    {[offset |-> 0, length |-> 1, message |-> "m1", rule_id |-> "R1",
      category_id |-> "GRAMMAR", replacements |-> r] : r \in ReplacementLists}
    \cup {[offset |-> 0, length |-> 0, message |-> "m5", rule_id |-> "R1",
           category_id |-> "MISC", replacements |-> <<>>]}

ClientCalls == [text : {<<"a", "A">>}, matches : SeqsUpTo(ClientMatches, MaxMatches)]

InitRuleClient ==
    /\ call \in {Some(c) : c \in ClientCalls}
    /\ result = None
    /\ pc = "Function" /\ awaiting = "none"
    /\ request = None /\ issues = <<>> /\ fallback_text = <<>>
    /\ llm_response = None /\ validation = None /\ response = None
    /\ calls = <<>> /\ initial_check = "none" /\ model_reply = "none"
    /\ rechecked = None /\ twin = None
    /\ running = None /\ pipeline = None
    /\ cancelled = FALSE /\ cache = None /\ clock = 0 /\ threads = None /\ history = None

\* _parse_matches(matches, original_text)
DoParseMatches ==
    /\ call # None /\ result = None
    /\ result' = Some([fn |-> "_parse_matches",
                       parsed |-> ParseMatches(call[1].matches, call[1].text, TRUE)])
    /\ UNCHANGED <<call, procVars, concVars, auxVars>>

NextRuleClient == DoParseMatches

SpecRuleClient == InitRuleClient /\ [][NextRuleClient]_vars

----------------------------------------------------------------------------
(* Boundary layer: the CheckRequest model (models/request.py) and the /check
   handler (main.py) up to the call of process.

   A request text of the boundary layer is given by its shape: `lead` blanks,
   then `body` characters that begin and end with a non-blank (none when body
   is 0), then `trail` blanks; texts of the lengths around max_length are
   represented this way. *)

\* request.py: text min_length=1, max_length=10000
text_min_length == 1
text_max_length == 10000

\* request.py: language min_length=2, max_length=5
language_min_length == 2
language_max_length == 5

\* config.py: max_text_length
max_text_length == 10000

\* config.py: SUPPORTED_LANGUAGES (its keys)
SUPPORTED_LANGUAGES ==
    {<<"n", "l">>, <<"e", "n">>, <<"d", "e">>, <<"f", "r">>, <<"e", "s">>}

\* len(text)
TextLen(text) == text.lead + text.body + text.trail

\* validate_text: v.strip()
StripText(text) == [lead |-> 0, body |-> text.body, trail |-> 0]

\* validate_language: v.lower().strip()
NormalizeLanguage(v) == Strip(Lower(v))

\* CheckRequest(**body): the Field constraints are checked on the values as
\* given, then the field validators run on the accepted values.  Absent when
\* a constraint fails (ValidationError).
ConstructCheckRequest(body) ==
    IF \/ TextLen(body.text) < text_min_length
       \/ TextLen(body.text) > text_max_length
       \/ Len(body.language) < language_min_length
       \/ Len(body.language) > language_max_length
    THEN None
    ELSE Some([text |-> StripText(body.text),
               language |-> NormalizeLanguage(body.language),
               mode |-> body.mode, tone |-> body.tone,
               include_explanations |-> body.include_explanations])

\* Mutant of LanguageSupported: every language code is let through.
LanguageSupported_Any(language) == TRUE

\* check_grammar: request.language in SUPPORTED_LANGUAGES
LanguageSupported(language) == language \in SUPPORTED_LANGUAGES

RawTexts ==
    [lead : {0, 1},
     body : {0, 1, text_max_length - 1, text_max_length, text_max_length + 1},
     trail : {0, 1}]

RawLanguages ==
    {<<"n", "l">>, <<"N", "L">>, <<"e", "n">>, <<"x", "x">>,
     <<" ", "n", "l">>, <<"N", "l", " ">>, <<"n">>, <<" ", " ">>,
     <<"n", "l", "-", "N", "L", "x">>}

CheckBodies ==
    [text : RawTexts, language : RawLanguages, mode : {"strict"},
     tone : {"neutral"}, include_explanations : {TRUE}]

InitBoundary ==
    /\ call \in {Some(b) : b \in CheckBodies}
    /\ result = None
    /\ pc = "Boundary" /\ awaiting = "none"
    /\ request = None /\ issues = <<>> /\ fallback_text = <<>>
    /\ llm_response = None /\ validation = None /\ response = None
    /\ calls = <<>> /\ initial_check = "none" /\ model_reply = "none"
    /\ rechecked = None /\ twin = None
    /\ running = None /\ pipeline = None
    /\ cancelled = FALSE /\ cache = None /\ clock = 0 /\ threads = None /\ history = None

\* The framework builds the handler's CheckRequest from the body; a body that
\* fails validation is answered 422 and the handler is not entered.
ParseBody ==
    /\ pc = "Boundary" /\ call # None /\ result = None
    /\ LET built == ConstructCheckRequest(call[1])
       IN IF built = None
          THEN pc' = "Rejected" /\ result' = Some([status |-> 422]) /\ request' = request
          ELSE pc' = "Handler" /\ result' = result /\ request' = built
    /\ UNCHANGED <<awaiting, issues, fallback_text, llm_response, validation, response,
                   calls, initial_check, model_reply, rechecked, twin, call, concVars, auxVars>>

\* check_grammar up to `await pipeline.process(request)`: the two checks answer
\* 400; otherwise process starts on the request.
CheckGrammar ==
    /\ pc = "Handler"
    /\ IF ~LanguageSupported(request[1].language)
       THEN pc' = "Rejected" /\ result' = Some([status |-> 400]) /\ request' = request
       ELSE IF TextLen(request[1].text) > max_text_length
       THEN pc' = "Rejected" /\ result' = Some([status |-> 400]) /\ request' = request
       ELSE pc' = "Start" /\ result' = result /\ request' = request[1]
    /\ UNCHANGED <<awaiting, issues, fallback_text, llm_response, validation, response,
                   calls, initial_check, model_reply, rechecked, twin, call, concVars, auxVars>>

NextBoundary == ParseBody \/ CheckGrammar \/ CallRuleBackend

SpecBoundary == InitBoundary /\ [][NextBoundary]_vars

----------------------------------------------------------------------------
(* Direct calls of the decoder: _parse_response applied to the content of a
   model reply. *)

\* Rewrite lists of a reply: those of LLMReplies, a list with an entry that is
\* not an object between two well-formed ones, and a list with a negative score.
DecodeRewriteLists ==
    RewriteLists
    \cup {<<[text |-> <<"b">>, tone |-> "casual", score |-> 0],
            [malformed |-> "not_an_object"],
            [text |-> <<"c">>, tone |-> "poetic", score |-> 10]>>,
          <<[text |-> <<"b">>, tone |-> "neutral", score |-> -1],
            [text |-> <<"c">>, tone |-> "formal", score |-> 8]>>}

\* Explanation lists of a reply: those of LLMReplies and a list with an entry
\* whose reason is not a string in front of a well-formed one.
DecodeExplanationLists ==
    ExplanationLists
    \cup {<<[malformed |-> "reason_not_a_string"],
            [span |-> <<"a">>, has_original |-> TRUE, original |-> <<"A">>,
             corrected |-> <<"b">>, reason |-> "r2"]>>}

DecodeContents ==
    {NoContent(k) : k \in {"no_json"} \cup ParseFailureKinds}
    \cup {[kind |-> "json", has_corrected |-> FALSE, corrected_is_str |-> TRUE,
           corrected_text |-> <<>>, rewrites |-> rw, explanations |-> ex] :
             rw \in DecodeRewriteLists, ex \in DecodeExplanationLists}
    \cup {[kind |-> "json", has_corrected |-> TRUE, corrected_is_str |-> TRUE,
           corrected_text |-> t, rewrites |-> rw, explanations |-> ex] :
             t \in ModelTexts, rw \in DecodeRewriteLists, ex \in DecodeExplanationLists}
    \cup {[kind |-> "json", has_corrected |-> TRUE, corrected_is_str |-> FALSE,
           corrected_text |-> <<>>, rewrites |-> rw, explanations |-> ex] :
             rw \in DecodeRewriteLists, ex \in DecodeExplanationLists}

DecodeCalls == [content : DecodeContents, original_text : Texts]

InitDecode ==
    /\ call \in {Some(c) : c \in DecodeCalls}
    /\ result = None
    /\ pc = "Function" /\ awaiting = "none"
    /\ request = None /\ issues = <<>> /\ fallback_text = <<>>
    /\ llm_response = None /\ validation = None /\ response = None
    /\ calls = <<>> /\ initial_check = "none" /\ model_reply = "none"
    /\ rechecked = None /\ twin = None
    /\ running = None /\ pipeline = None
    /\ cancelled = FALSE /\ cache = None /\ clock = 0 /\ threads = None /\ history = None

\* _parse_response(response_text, original_text)
DoParseResponse ==
    /\ call # None /\ result = None
    /\ LET outcome == ParseResponseOutcome(call[1].content, call[1].original_text)
       IN result' = Some([fn |-> "_parse_response", raised |-> outcome.raised,
                          returned |-> outcome.value])
    /\ UNCHANGED <<call, procVars, concVars, auxVars>>

NextDecode == DoParseResponse

SpecDecode == InitDecode /\ [][NextDecode]_vars

----------------------------------------------------------------------------
(* Concurrent calls of process on one GrammarPipeline object.

   A call's state is the record of process's locals; a step runs the call from
   one suspension point to the next.  The steps are those of the actions of
   Spec, written as functions of the call's state and the reply it resumes
   with. *)

\* The state of a call of process(request) before its first statement.
InitialState(req) ==
    [pc |-> "Start", awaiting |-> "none", request |-> req, issues |-> <<>>,
     fallback_text |-> <<>>, llm_response |-> None, validation |-> None,
     response |-> None, calls |-> <<>>]

\* A call that is not suspended runs to its next await: the initial check, or
\* the branch on `if not issues:` and the model call.
StepLocal(st) ==
    IF st.pc = "Start"
    THEN [st EXCEPT !.awaiting = "rule_check", !.calls = Append(@, "rule_check")]
    ELSE IF st.issues = <<>>
    THEN [st EXCEPT !.pc = "NoIssues", !.awaiting = "model", !.calls = Append(@, "model")]
    ELSE [st EXCEPT !.pc = "Corrected", !.awaiting = "model",
                    !.fallback_text = ApplyRuleBasedFixes(st.request.text, st.issues),
                    !.calls = Append(@, "model")]

\* The initial check returns or raises.
StepRuleReply(st, reply) ==
    LET checked == CheckText(reply, st.request.text, TRUE)
    IN CASE checked.status = "lt_error" ->
                [st EXCEPT !.awaiting = "none", !.pc = "Final",
                           !.response = Some(RuleFailedResponse(st.request))]
         [] checked.status = "raised" ->
                [st EXCEPT !.awaiting = "none", !.pc = "Raised"]
         [] OTHER ->
                [st EXCEPT !.awaiting = "none", !.pc = "RuleChecked",
                           !.issues = checked.issues]

\* The model call returns: generate_rewrites_only in the no-issues branch,
\* generate_correction in the corrected branch.
StepModelReply(st, reply) ==
    LET r == GenerateCorrection(reply, st.request.text)
    IN IF st.pc = "NoIssues"
       THEN IF r = None
            THEN [st EXCEPT !.awaiting = "none", !.pc = "Final",
                            !.response = Some(NoIssuesDefaultResponse(st.request))]
            ELSE IF ~r[1].corrected_is_str \/ r[1].corrected_text # st.request.text
            THEN [st EXCEPT !.llm_response = r, !.awaiting = "recheck",
                            !.calls = Append(@, "recheck")]
            ELSE [st EXCEPT !.llm_response = r, !.awaiting = "none", !.pc = "Final",
                            !.response = Some(NoIssuesResponse(st.request, r[1], FALSE,
                                                               st.request.text))]
       ELSE IF r = None
            THEN [st EXCEPT !.awaiting = "none", !.pc = "Final",
                            !.response = Some(ModelFailedResponse(st.request, st.issues,
                                                                  st.fallback_text))]
            ELSE [st EXCEPT !.llm_response = r, !.awaiting = "recheck",
                            !.calls = Append(@, "recheck")]

\* The validator's re-check returns or raises.
StepRecheckReply(st, reply) ==
    LET llm     == st.llm_response[1]
        checked == CheckText(reply, llm.corrected_text, llm.corrected_is_str)
    IN IF st.pc = "NoIssues"
       THEN LET verdict == ValidateCorrection(checked, <<>>, TRUE)
            IN IF verdict.raised
               THEN [st EXCEPT !.awaiting = "none", !.pc = "Final",
                               !.response = Some(NoIssuesDefaultResponse(st.request))]
               ELSE IF verdict.is_valid /\ ~llm.corrected_is_str
               THEN [st EXCEPT !.awaiting = "none", !.pc = "Final",
                               !.validation = Some(verdict),
                               !.response = Some(NoIssuesDefaultResponse(st.request))]
               ELSE [st EXCEPT !.awaiting = "none", !.pc = "Final",
                               !.validation = Some(verdict),
                               !.response = Some(NoIssuesResponse(st.request, llm, TRUE,
                                   NoIssuesCorrected(st.request.text, llm.corrected_text,
                                                     verdict)))]
       ELSE LET chosen == ValidateAndChoose(llm.corrected_text, st.fallback_text,
                                            st.issues, checked)
            IN IF chosen.raised
               THEN [st EXCEPT !.awaiting = "none", !.pc = "Raised"]
               ELSE IF ~chosen.used_fallback /\ ~llm.corrected_is_str
               THEN [st EXCEPT !.awaiting = "none", !.pc = "Raised",
                               !.validation = Some(chosen.validation)]
               ELSE [st EXCEPT !.awaiting = "none", !.pc = "Final",
                               !.validation = Some(chosen.validation),
                               !.response = Some(CorrectedResponse(st.request, st.issues,
                                                                   llm, chosen))]

\* One step of a call of process; the reply is not read by a call that is not
\* suspended.
StepProcess(st, reply) ==
    CASE st.awaiting = "none" -> StepLocal(st)
      [] st.awaiting = "rule_check" -> StepRuleReply(st, reply)
      [] st.awaiting = "model" -> StepModelReply(st, reply)
      [] OTHER -> StepRecheckReply(st, reply)

\* A call of process has returned or raised.
Done(st) == st.pc \in {"Final", "Raised"}

\* GrammarPipeline.__init__: the attributes every call reads through self.
ThePipeline ==
    [languagetool |-> "LanguageToolService", llm |-> "LLMService",
     validator |-> [max_new_issues |-> max_new_issues,
                    ignore_categories |-> {"STYLE", "TYPOGRAPHY"}],
     chunker |-> "TextChunker"]

\* Mutant of StepOnPipeline: process keeps `issues` on self, not in a local.
StepOnPipeline_IssuesOnSelf(st, self, reply) ==
    LET shared == IF "issues" \in DOMAIN self THEN self.issues ELSE st.issues
        next   == StepProcess([st EXCEPT !.issues = shared], reply)
    IN [st |-> next, self |-> [issues |-> next.issues]]

\* One step of a call on the shared object: process reads self's attributes and
\* assigns none of them.
StepOnPipeline(st, self, reply) == [st |-> StepProcess(st, reply), self |-> self]

\* The calls that run concurrently.
Callers == {"c1", "c2"}

ConcurrentRequests ==
    {[text |-> <<"a", "A">>, language |-> "nl", mode |-> "style", tone |-> "neutral",
      include_explanations |-> TRUE],
     [text |-> <<"A">>, language |-> "nl", mode |-> "strict", tone |-> "neutral",
      include_explanations |-> FALSE]}

\* The replies a suspended call can resume with.
ConcurrentReplies(st) ==
    CASE st.awaiting = "rule_check" ->
             {[kind |-> "timeout", matches |-> <<>>], [kind |-> "ok", matches |-> <<>>]}
             \cup {[kind |-> "ok", matches |-> <<m>>] :
                     m \in {x \in InitialMatches : x.message = "m1"}}
      [] st.awaiting = "model" ->
             {NoContent("timeout")}
             \cup {[kind |-> "json", has_corrected |-> TRUE, corrected_is_str |-> TRUE,
                    corrected_text |-> t, rewrites |-> <<>>, explanations |-> <<>>] :
                      t \in {x \in ModelTexts : Len(x) > 1}}
      [] st.awaiting = "recheck" ->
             {[kind |-> "timeout", matches |-> <<>>], [kind |-> "ok", matches |-> <<>>]}
             \cup {[kind |-> "ok", matches |-> <<m>>] :
                     m \in {x \in RecheckMatches : x.message = "n2"}}
      [] OTHER -> {NoContent("none")}

InitConcurrent ==
    /\ running \in [Callers -> {[st |-> InitialState(req), received |-> <<>>] :
                                   req \in ConcurrentRequests}]
    /\ pipeline = ThePipeline
    /\ pc = "Concurrent" /\ awaiting = "none"
    /\ request = None /\ issues = <<>> /\ fallback_text = <<>>
    /\ llm_response = None /\ validation = None /\ response = None
    /\ calls = <<>> /\ initial_check = "none" /\ model_reply = "none"
    /\ rechecked = None /\ twin = None
    /\ call = None /\ result = None
    /\ cancelled = FALSE /\ cache = None /\ clock = 0 /\ threads = None /\ history = None

\* The event loop resumes one of the calls: it runs to its next await.  `calls`
\* records which call ran, in order.
Resume ==
    \E c \in Callers :
        /\ ~Done(running[c].st)
        /\ \E reply \in ConcurrentReplies(running[c].st) :
             LET out == StepOnPipeline(running[c].st, pipeline, reply)
             IN /\ running' = [running EXCEPT
                                  ![c] = [st |-> out.st,
                                          received |-> IF running[c].st.awaiting = "none"
                                                       THEN running[c].received
                                                       ELSE Append(running[c].received, reply)]]
                /\ pipeline' = out.self
        /\ calls' = Append(calls, c)
        /\ UNCHANGED <<pc, awaiting, request, issues, fallback_text, llm_response,
                       validation, response, initial_check, model_reply, rechecked,
                       twin, call, result, auxVars>>

NextConcurrent == Resume

SpecConcurrent == InitConcurrent /\ [][NextConcurrent]_vars

----------------------------------------------------------------------------
(* Cancellation of a request while process is suspended: the event loop raises
   asyncio.CancelledError at the await of the HTTP exchange, and the exception
   travels outwards through the except clauses around that await. *)

\* The classes asyncio.CancelledError is an instance of: it derives from
\* BaseException directly (the interpreter runs list[...] annotations, so it is
\* Python 3.9 or later).
CancelledErrorClasses == {"CancelledError", "BaseException"}

\* Mutant of Catches: CancelledError derives from Exception.
Catches_CancelledIsException(clause) ==
    clause \in CancelledErrorClasses \cup {"Exception"}

\* `except <clause>` catches a CancelledError.
Catches(clause) == clause \in CancelledErrorClasses

\* The except clauses around the await a call of process is suspended in,
\* innermost first: those of check_text or _call_llm, then those of
\* validate_correction or generate_correction / generate_rewrites_only, then
\* that of process.
HandlersAround(st) ==
    CASE st.awaiting = "rule_check" ->
             <<"httpx.TimeoutException", "httpx.HTTPStatusError", "Exception",
               "LanguageToolError">>
      [] st.awaiting = "model" ->
             <<"httpx.TimeoutException", "httpx.HTTPStatusError", "Exception",
               "Exception", IF st.pc = "NoIssues" THEN "Exception" ELSE "LLMError">>
      [] st.awaiting = "recheck" ->
             <<"httpx.TimeoutException", "httpx.HTTPStatusError", "Exception",
               "LanguageToolError", IF st.pc = "NoIssues" THEN "Exception" ELSE "LLMError">>
      [] OTHER -> <<>>

\* What the stage sees when the innermost `except Exception` catches the
\* exception of the HTTP exchange: the failure of a network error.
ExchangeFailed(st) ==
    IF st.awaiting = "model" THEN NoContent("network_error")
    ELSE [kind |-> "network_error", matches |-> <<>>]

\* A call of process suspended in a backend call is cancelled: when a clause
\* around the await catches the CancelledError the stage goes on as after a
\* failed exchange, otherwise the exception leaves process.
CancelAtAwait(st) ==
    IF \E i \in 1..Len(HandlersAround(st)) : Catches(HandlersAround(st)[i])
    THEN StepProcess(st, ExchangeFailed(st))
    ELSE [st EXCEPT !.pc = "Cancelled", !.awaiting = "none"]

\* The client cancels the request while process is suspended.
Cancel ==
    /\ awaiting # "none" /\ ~cancelled
    /\ LET st  == [pc |-> pc, awaiting |-> awaiting, request |-> request,
                   issues |-> issues, fallback_text |-> fallback_text,
                   llm_response |-> llm_response, validation |-> validation,
                   response |-> response, calls |-> calls]
           out == CancelAtAwait(st)
       IN /\ pc' = out.pc /\ awaiting' = out.awaiting
          /\ issues' = out.issues /\ fallback_text' = out.fallback_text
          /\ llm_response' = out.llm_response /\ validation' = out.validation
          /\ response' = out.response /\ calls' = out.calls
    /\ cancelled' = TRUE
    /\ UNCHANGED <<request, initial_check, model_reply, rechecked, twin, call, result,
                   concVars, cache, clock, threads, history>>

NextCancel == Next \/ Cancel

SpecCancel == Init /\ [][NextCancel]_vars

----------------------------------------------------------------------------
(* GrammarCache: utils/cache.py.

   The cache object is the record [ttl, max_entries, _cache, _stats, _lock].
   _cache is a dict, which keeps its keys in insertion order: it is the
   sequence of its entries [key, value, timestamp, hits] in that order.  A
   stored value is <<v>>, or <<>> for Python's None.  The md5 digest of a key's
   content is taken to be the content itself (no two contents share a
   digest). *)

\* config.py: cache_ttl
cache_ttl == 300

\* _evict_oldest: len(sorted_keys) // 10
EvictDivisor == 10

\* GrammarCache(ttl, max_entries): `ttl or settings.cache_ttl`.
NewCache(ttl, max_entries) ==
    [ttl         |-> IF ttl = None \/ ttl = Some(0) THEN cache_ttl ELSE ttl[1],
     max_entries |-> max_entries,
     _cache      |-> <<>>,
     _stats      |-> [hits |-> 0, misses |-> 0, evictions |-> 0],
     _lock       |-> None]

\* _make_key(text, language, mode): f"{text}|{language}|{mode or ''}".
MakeKey(text, language, mode) ==
    text \o <<"|">> \o language \o <<"|">> \o (IF mode = None THEN <<>> ELSE mode[1])

\* The keys of the dict.
Keys(entries) == {entries[i].key : i \in 1..Len(entries)}

\* The position of key in the dict, 0 when it is not a key.
IndexOf(entries, key) ==
    IF key \in Keys(entries)
    THEN CHOOSE i \in 1..Len(entries) : entries[i].key = key
    ELSE 0

\* del self._cache[key]
DelKeys(entries, keys) == SelectSeq(entries, LAMBDA e : e.key \notin keys)

\* Mutant of Expired: an entry lives one second longer than ttl.
Expired_OneMore(now, timestamp, ttl) == now - timestamp > ttl + 1

\* now - entry.timestamp > self.ttl
Expired(now, timestamp, ttl) == now - timestamp > ttl

\* get up to its return, without the update of _stats: the entry is looked up,
\* deleted when it is expired, counted in entry.hits when it is returned.
\* counter is the statistic the call goes on to increment.
GetLookup(c, key, now) ==
    LET i == IndexOf(c._cache, key)
    IN IF i = 0
       THEN [cache |-> c, counter |-> "misses", found |-> FALSE, ret |-> None]
       ELSE IF Expired(now, c._cache[i].timestamp, c.ttl)
       THEN [cache |-> [c EXCEPT !._cache = DelKeys(@, {key})],
             counter |-> "misses", found |-> FALSE, ret |-> None]
       ELSE [cache |-> [c EXCEPT !._cache[i].hits = @ + 1],
             counter |-> "hits", found |-> TRUE, ret |-> c._cache[i].value]

\* self._stats[counter] += 1
BumpStat(c, counter) == [c EXCEPT !._stats[counter] = @ + 1]

\* get(text, language, mode) at time now, key = _make_key(...).
CacheGet(c, key, now) ==
    LET looked == GetLookup(c, key, now)
    IN [looked EXCEPT !.cache = BumpStat(looked.cache, looked.counter)]

\* Mutant of InsertByTimestamp: the sort is descending.
InsertByTimestamp_Descending(sorted, e) ==
    LET k == Cardinality({i \in 1..Len(sorted) : sorted[i].timestamp >= e.timestamp})
    IN SubSeq(sorted, 1, k) \o <<e>> \o SubSeq(sorted, k + 1, Len(sorted))

\* sorted(keys, key=timestamp): a stable sort.  One insertion step: e goes
\* behind every entry whose timestamp is at most its own.
InsertByTimestamp(sorted, e) ==
    LET k == Cardinality({i \in 1..Len(sorted) : sorted[i].timestamp <= e.timestamp})
    IN SubSeq(sorted, 1, k) \o <<e>> \o SubSeq(sorted, k + 1, Len(sorted))

RECURSIVE SortByTimestampFrom(_, _)
SortByTimestampFrom(sorted, rest) ==
    IF rest = <<>> THEN sorted
    ELSE SortByTimestampFrom(InsertByTimestamp(sorted, Head(rest)), Tail(rest))

\* The keys _evict_oldest deletes: the first max(1, len // 10) of the keys
\* sorted by timestamp; none when the dict is empty.
EvictedKeys(entries) ==
    IF entries = <<>> THEN {}
    ELSE LET sorted      == SortByTimestampFrom(<<>>, entries)
             tenth       == Len(sorted) \div EvictDivisor
             evict_count == IF tenth > 1 THEN tenth ELSE 1
         IN {sorted[i].key : i \in 1..evict_count}

\* _evict_oldest()
EvictOldest(c) ==
    LET gone == EvictedKeys(c._cache)
    IN [c EXCEPT !._cache = DelKeys(@, gone),
                 !._stats.evictions = @ + Cardinality(gone)]

\* self._cache[key] = CacheEntry(value, timestamp=now): a key of the dict keeps
\* its position, a new key goes to the end.
StoreEntry(entries, key, value, now) ==
    LET entry == [key |-> key, value |-> value, timestamp |-> now, hits |-> 0]
        i     == IndexOf(entries, key)
    IN IF i = 0 THEN Append(entries, entry) ELSE [entries EXCEPT ![i] = entry]

\* set(text, language, value, mode) at time now.
CacheSet(c, key, value, now) ==
    LET room == IF Len(c._cache) >= c.max_entries THEN EvictOldest(c) ELSE c
    IN [room EXCEPT !._cache = StoreEntry(@, key, value, now)]

\* invalidate(text, language, mode)
CacheInvalidate(c, key) ==
    [cache |-> [c EXCEPT !._cache = DelKeys(@, {key})],
     ret   |-> key \in Keys(c._cache)]

\* clear()
CacheClear(c) == [c EXCEPT !._cache = <<>>]

\* The keys cleanup_expired deletes, `now` being the time read before the lock
\* was taken.
ExpiredKeys(c, now) ==
    {c._cache[i].key : i \in {j \in 1..Len(c._cache) :
                                Expired(now, c._cache[j].timestamp, c.ttl)}}

\* cleanup_expired()
CacheCleanupExpired(c, now) ==
    [cache |-> [c EXCEPT !._cache = DelKeys(@, ExpiredKeys(c, now))],
     ret   |-> Cardinality(ExpiredKeys(c, now))]

----------------------------------------------------------------------------
(* Calls of one thread on a GrammarCache: each call runs from its first
   statement to its return.  `history` keeps, for the last call, its arguments,
   what it returned, the cache before it and the keys it deleted; and, for each
   (text, language, mode), the value of its last set while that entry has not
   been deleted since. *)

\* The (text, language, mode) the calls are made with: two that differ in mode
\* None / "" only, one that differs in language, and two whose fields hold the
\* separator.
Triples ==
    {[text |-> <<"a">>, language |-> <<"n", "l">>, mode |-> None],
     [text |-> <<"a">>, language |-> <<"n", "l">>, mode |-> Some(<<>>)],
     [text |-> <<"a">>, language |-> <<"e", "n">>, mode |-> None],
     [text |-> <<"a", "|", "n", "l">>, language |-> <<"e", "n">>, mode |-> None],
     [text |-> <<"a">>, language |-> <<"n", "l", "|", "e", "n">>, mode |-> None]}

\* The values stored.
CacheValues == {Some("v"), Some("w")}

KeyOf(t) == MakeKey(t.text, t.language, t.mode)

\* A cache with max_entries = 20 that is full: twenty sets at time 0, then the
\* entries at the odd positions set again at time 1.
FillerTexts ==
    <<"a", "b", "c", "d", "e", "f", "g", "h", "i", "j",
      "k", "l", "m", "n", "o", "p", "q", "r", "s", "t">>

FullCache ==
    [NewCache(Some(2), Len(FillerTexts)) EXCEPT
        !._cache = [i \in 1..Len(FillerTexts) |->
                       [key       |-> MakeKey(<<"f", FillerTexts[i]>>, <<"n", "l">>, None),
                        value     |-> Some("v"),
                        timestamp |-> i % 2,
                        hits      |-> 0]]]

InitCache ==
    /\ \/ cache = NewCache(Some(1), 2) /\ clock = 0
       \/ cache = FullCache /\ clock = 1
    /\ history = [ops |-> 0, last |-> None,
                  written |-> [t \in Triples |-> None], ever_set |-> {}]
    /\ threads = None /\ cancelled = FALSE
    /\ running = None /\ pipeline = None
    /\ pc = "Cache" /\ awaiting = "none"
    /\ request = None /\ issues = <<>> /\ fallback_text = <<>>
    /\ llm_response = None /\ validation = None /\ response = None
    /\ calls = <<>> /\ initial_check = "none" /\ model_reply = "none"
    /\ rechecked = None /\ twin = None
    /\ call = None /\ result = None

\* history after a call: op on triple t (None for clear and cleanup_expired)
\* returned ret and deleted the keys `removed`.
Recorded(op, t, value, ret, found, removed) ==
    [ops      |-> history.ops + 1,
     last     |-> Some([op |-> op, triple |-> t, value |-> value, ret |-> ret,
                        found |-> found, at |-> clock, before |-> cache,
                        removed |-> removed,
                        wrote |-> IF t = None THEN None ELSE history.written[t[1]]]),
     written  |-> [x \in Triples |->
                      IF op = "set" /\ t = Some(x) THEN Some([value |-> value, at |-> clock])
                      ELSE IF KeyOf(x) \in removed THEN None
                      ELSE history.written[x]],
     ever_set |-> IF op = "set" THEN history.ever_set \cup {t[1]} ELSE history.ever_set]

\* The variables no cache call changes.
notCacheVars == <<pc, awaiting, request, issues, fallback_text, llm_response, validation, response, calls, initial_check, model_reply, rechecked, twin, call, result, concVars, cancelled>>

\* cache.get(text, language, mode)
DoGet ==
    /\ history.ops < MaxOps
    /\ \E t \in Triples :
         LET out == CacheGet(cache, KeyOf(t), clock)
         IN /\ cache' = out.cache
            /\ history' = Recorded("get", Some(t), None, out.ret, out.found,
                                   Keys(cache._cache) \ Keys(out.cache._cache))
    /\ UNCHANGED <<clock, threads, notCacheVars>>

\* cache.set(text, language, value, mode)
DoSet ==
    /\ history.ops < MaxOps
    /\ \E t \in Triples, v \in CacheValues :
         /\ cache' = CacheSet(cache, KeyOf(t), v, clock)
         /\ history' = Recorded("set", Some(t), v, None, FALSE,
                                IF Len(cache._cache) >= cache.max_entries
                                THEN EvictedKeys(cache._cache) ELSE {})
    /\ UNCHANGED <<clock, threads, notCacheVars>>

\* cache.invalidate(text, language, mode)
DoInvalidate ==
    /\ history.ops < MaxOps
    /\ \E t \in Triples :
         LET out == CacheInvalidate(cache, KeyOf(t))
         IN /\ cache' = out.cache
            /\ history' = Recorded("invalidate", Some(t), None, Some(out.ret), FALSE,
                                   Keys(cache._cache) \ Keys(out.cache._cache))
    /\ UNCHANGED <<clock, threads, notCacheVars>>

\* cache.clear()
DoClear ==
    /\ history.ops < MaxOps
    /\ cache' = CacheClear(cache)
    /\ history' = Recorded("clear", None, None, None, FALSE, Keys(cache._cache))
    /\ UNCHANGED <<clock, threads, notCacheVars>>

\* cache.cleanup_expired()
DoCleanupExpired ==
    /\ history.ops < MaxOps
    /\ LET out == CacheCleanupExpired(cache, clock)
       IN /\ cache' = out.cache
          /\ history' = Recorded("cleanup_expired", None, None, Some(out.ret), FALSE,
                                 Keys(cache._cache) \ Keys(out.cache._cache))
    /\ UNCHANGED <<clock, threads, notCacheVars>>

\* Time passes: one second or two.
Tick ==
    /\ history.ops < MaxOps
    /\ \E seconds \in {1, 2} : clock' = clock + seconds
    /\ history' = [history EXCEPT !.ops = @ + 1]
    /\ UNCHANGED <<cache, threads, notCacheVars>>

NextCache == DoGet \/ DoSet \/ DoInvalidate \/ DoClear \/ DoCleanupExpired \/ Tick

SpecCache == InitCache /\ [][NextCache]_vars

----------------------------------------------------------------------------
(* Calls of two threads on one GrammarCache.  A call computes its key (and
   cleanup_expired reads the time), waits for self._lock, runs its `with` block
   and releases the lock on leaving it.  The `+= 1` of a statistic is a load
   and a store.  `history` counts the completed gets: all of them, those that
   found a live entry, and those that returned a value other than None. *)

CacheThreads == {"t1", "t2"}

ThreadTriples ==
    {[text |-> <<"a">>, language |-> <<"n", "l">>, mode |-> None],
     [text |-> <<"a">>, language |-> <<"e", "n">>, mode |-> None]}

\* The values the threads store: a value and Python's None.
ThreadValues == {Some("v"), None}

\* The calls a thread makes; a call takes the arguments of its signature only.
ThreadCalls ==
    {[op |-> "get", key |-> KeyOf(t), value |-> None] : t \in ThreadTriples}
    \cup {[op |-> "set", key |-> KeyOf(t), value |-> v] :
             t \in ThreadTriples, v \in ThreadValues}
    \cup {[op |-> "invalidate", key |-> KeyOf(t), value |-> None] : t \in ThreadTriples}
    \cup {[op |-> o, key |-> <<>>, value |-> None] : o \in {"clear", "cleanup_expired"}}

IdleThread ==
    [pc |-> "idle", op |-> "none", key |-> <<>>, value |-> None, now |-> 0,
     counter |-> "none", loaded |-> 0, found |-> FALSE, ret |-> None]

InitCacheThreads ==
    /\ cache = NewCache(Some(1), 2) /\ clock = 0
    /\ threads = [t \in CacheThreads |-> IdleThread]
    /\ history = [ops |-> 0, gets |-> 0, found |-> 0, returned_value |-> 0]
    /\ cancelled = FALSE
    /\ running = None /\ pipeline = None
    /\ pc = "CacheThreads" /\ awaiting = "none"
    /\ request = None /\ issues = <<>> /\ fallback_text = <<>>
    /\ llm_response = None /\ validation = None /\ response = None
    /\ calls = <<>> /\ initial_check = "none" /\ model_reply = "none"
    /\ rechecked = None /\ twin = None
    /\ call = None /\ result = None

\* Mutant of LockFree: the lock never blocks.
LockFree_Always(lock) == TRUE

\* `with self._lock:` can be entered.
LockFree(lock) == lock = None

\* A thread calls the cache: the statements before `with self._lock`.
CallCache ==
    /\ history.ops < MaxOps
    /\ \E t \in CacheThreads, c \in ThreadCalls :
         /\ threads[t].pc = "idle"
         /\ threads' = [threads EXCEPT
                           ![t] = [IdleThread EXCEPT
                                      !.pc = "waiting", !.op = c.op, !.key = c.key,
                                      !.value = c.value,
                                      !.now = IF c.op = "cleanup_expired" THEN clock ELSE 0]]
    /\ history' = [history EXCEPT !.ops = @ + 1]
    /\ UNCHANGED <<cache, clock, notCacheVars>>

\* with self._lock: the thread takes the lock.
Acquire ==
    \E t \in CacheThreads :
        /\ threads[t].pc = "waiting"
        /\ LockFree(cache._lock)
        /\ cache' = [cache EXCEPT !._lock = Some(t)]
        /\ threads' = [threads EXCEPT ![t].pc = "locked"]
        /\ UNCHANGED <<clock, history, notCacheVars>>

\* get: the entry is looked up.
Lookup ==
    \E t \in CacheThreads :
        /\ threads[t].pc = "locked" /\ threads[t].op = "get"
        /\ LET out == GetLookup(cache, threads[t].key, clock)
           IN /\ cache' = out.cache
              /\ threads' = [threads EXCEPT ![t].pc = "load", ![t].counter = out.counter,
                                            ![t].found = out.found, ![t].ret = out.ret]
        /\ UNCHANGED <<clock, history, notCacheVars>>

\* get: self._stats[counter] is read.
LoadStat ==
    \E t \in CacheThreads :
        /\ threads[t].pc = "load"
        /\ threads' = [threads EXCEPT ![t].pc = "store",
                                      ![t].loaded = cache._stats[threads[t].counter]]
        /\ UNCHANGED <<cache, clock, history, notCacheVars>>

\* get: self._stats[counter] is written; the call returns and the lock is
\* released.
StoreStat ==
    \E t \in CacheThreads :
        /\ threads[t].pc = "store"
        /\ cache' = [cache EXCEPT !._stats[threads[t].counter] = threads[t].loaded + 1,
                                  !._lock = None]
        /\ history' = [history EXCEPT
                          !.gets = @ + 1,
                          !.found = IF threads[t].found THEN @ + 1 ELSE @,
                          !.returned_value = IF threads[t].ret # None THEN @ + 1 ELSE @]
        /\ threads' = [threads EXCEPT ![t] = IdleThread]
        /\ UNCHANGED <<clock, notCacheVars>>

\* set, invalidate, clear, cleanup_expired: the `with` block; the lock is
\* released.
RunLocked ==
    \E t \in CacheThreads :
        /\ threads[t].pc = "locked" /\ threads[t].op # "get"
        /\ LET th  == threads[t]
               out == CASE th.op = "set" -> CacheSet(cache, th.key, th.value, clock)
                        [] th.op = "invalidate" -> CacheInvalidate(cache, th.key).cache
                        [] th.op = "clear" -> CacheClear(cache)
                        [] OTHER -> CacheCleanupExpired(cache, th.now).cache
           IN cache' = [out EXCEPT !._lock = None]
        /\ threads' = [threads EXCEPT ![t] = IdleThread]
        /\ UNCHANGED <<clock, history, notCacheVars>>

NextCacheThreads ==
    CallCache \/ Acquire \/ Lookup \/ LoadStat \/ StoreStat \/ RunLocked \/ Tick

SpecCacheThreads == InitCacheThreads /\ [][NextCacheThreads]_vars

----------------------------------------------------------------------------
(* Properties *)

Returned == pc = "Final" /\ response # None
InCorrectedBranch == initial_check = "ok" /\ issues # <<>>
InNoIssuesBranch == initial_check = "ok" /\ issues = <<>> /\ pc # "RuleChecked"

\* C1: in the corrected branch, a response that carries the model's text
\* (fallback_used = false) rests on a re-check that reported strictly fewer
\* issues than the initial check and no issue that is not similar to an
\* original one.  (The statement of the claim; the code accepts an equal count.)
C1_AcceptedHasStrictlyFewerIssues ==
    (Returned /\ InCorrectedBranch /\ ~response[1].fallback_used) =>
        /\ rechecked # None
        /\ rechecked[1].status = "ok"
        /\ Len(rechecked[1].issues) < Len(issues)
        /\ \A i \in 1..Len(rechecked[1].issues) :
               IsSimilarIssue(rechecked[1].issues[i], issues)

\* Replacement of one issue's span by its first suggestion.
ReplaceSpan(text, issue) ==
    SubSeq(text, 1, Min(issue.offset, Len(text))) \o issue.suggestions[1]
    \o SubSeq(text, issue.offset + issue.length + 1, Len(text))

\* The text after the issues with a suggestion are replaced in the order order[1],
\* order[2], ...
RECURSIVE ReplaceInOrder(_, _, _, _)
ReplaceInOrder(text, issue_list, order, k) ==
    IF k > Len(issue_list) THEN text
    ELSE LET issue == issue_list[order[k]]
         IN ReplaceInOrder(IF issue.suggestions # <<>> THEN ReplaceSpan(text, issue) ELSE text,
                           issue_list, order, k + 1)

\* The orders of 1..n in which the offsets never increase.
DescendingOrders(issue_list) ==
    {order \in [1..Len(issue_list) -> 1..Len(issue_list)] :
        /\ \A i, j \in 1..Len(issue_list) : i # j => order[i] # order[j]
        /\ \A i, j \in 1..Len(issue_list) :
               i < j => issue_list[order[i]].offset >= issue_list[order[j]].offset}

\* C2: every response with fallback_used = true has as corrected_text the
\* original text with the span of each of its issues that has a suggestion
\* replaced by the first suggestion, in descending offset order; the text is a
\* function of the response's original_text and issues alone, so it is the same
\* whatever the model replied.
C2_FallbackIsRuleReplacement ==
    (Returned /\ response[1].fallback_used) =>
        /\ \E order \in DescendingOrders(response[1].issues) :
               response[1].corrected_text =
                   ReplaceInOrder(response[1].original_text, response[1].issues, order, 1)
        /\ response[1].corrected_text =
               ApplyRuleBasedFixes(response[1].original_text, response[1].issues)

\* C2 witness: a rejected model reply, and a fallback that replaced two spans at
\* different offsets.
C2_Witness ==
    /\ Returned /\ response[1].fallback_used
    /\ llm_response # None /\ llm_response[1].corrected_is_str
    /\ llm_response[1].corrected_text # response[1].corrected_text
    /\ \E i, j \in 1..Len(issues) :
           /\ issues[i].offset < issues[j].offset
           /\ issues[i].suggestions # <<>> /\ issues[j].suggestions # <<>>

\* C3: process returns a CheckResponse and raises no exception, whatever the two
\* backends do.  (The statement of the claim; the code raises.)
C3_ProcessNeverRaises == pc # "Raised"

\* C4: every response for a request with mode = strict has rewrites = [].
\* (The statement of the claim; the corrected branch does not gate rewrites.)
C4_StrictHasNoRewrites ==
    (Returned /\ request.mode = "strict") => response[1].rewrites = <<>>

\* C5: whenever the validator gave a verdict on a model candidate, the
\* response's validation_passed equals the verdict's is_valid.  (The statement
\* of the claim; the no-issues branch always answers validation_passed = true.)
C5_ValidationPassedIsVerdict ==
    (Returned /\ validation # None) =>
        response[1].validation_passed = validation[1].is_valid

\* The number of truly-new issues: re-check issues with no similar original
\* issue and, in non-strict mode, not of category style or typography.
TrulyNewCount(new_issues, original_issues, strict) ==
    Cardinality({i \in 1..Len(new_issues) :
        /\ ~IsSimilarIssue(new_issues[i], original_issues)
        /\ (strict \/ new_issues[i].category \notin {"style", "typography"})})

C7_ValidateAndChoose ==
    (result # None /\ result[1].fn = "validate_and_choose" /\ ~result[1].chosen.raised) =>
        LET chosen  == result[1].chosen
            verdict == ValidateCorrection(call[1].checked, call[1].original_issues, TRUE)
        IN /\ chosen.validation = verdict
           /\ chosen.used_fallback = ~verdict.is_valid
           /\ verdict.is_valid => chosen.chosen_text = call[1].llm_text
           /\ ~verdict.is_valid => chosen.chosen_text = call[1].fallback_text
           /\ chosen.chosen_text \in {call[1].llm_text, call[1].fallback_text}

\* C7 witness: both outcomes need a call; this one is a rejected candidate for
\* which the fallback text, different from the model's, was chosen.
C7_Witness ==
    /\ result # None /\ result[1].fn = "validate_and_choose"
    /\ ~result[1].chosen.raised
    /\ result[1].chosen.used_fallback
    /\ call[1].checked.status = "ok"
    /\ call[1].llm_text # call[1].fallback_text
    /\ result[1].chosen.chosen_text = call[1].fallback_text

ModelFailed == model_reply \in LLMFailureKinds

\* What C10 states apart from the explanations.
ModelFailureFallsBack ==
    /\ Returned
    /\ response[1].corrected_text = fallback_text
    /\ response[1].corrected_text = ApplyRuleBasedFixes(request.text, issues)
    /\ response[1].fallback_used
    /\ ~response[1].validation_passed
    /\ response[1].rewrites = <<>>
    /\ validation = None /\ rechecked = None
    /\ calls = <<"rule_check", "model">>

\* C10 as stated: in the corrected branch, when the model call fails in any way,
\* process returns the fallback text, fallback_used = true, validation_passed =
\* false, rewrites = [] and the explanations synthesized from the rule issues,
\* and the validator is not invoked.
C10_ModelFailureSynthesizedExplanations ==
    (InCorrectedBranch /\ ModelFailed) =>
        /\ ModelFailureFallsBack
        /\ response[1].explanations = GenerateBasicExplanations(issues)

\* C10 as amended: the same, with the explanations synthesized from the rule
\* issues when include_explanations is true and empty when it is false.
C10_ModelFailureGatedExplanations ==
    (InCorrectedBranch /\ ModelFailed) =>
        /\ ModelFailureFallsBack
        /\ response[1].explanations =
               IF request.include_explanations THEN GenerateBasicExplanations(issues)
               ELSE <<>>

\* C10 witness: the model timed out on a request without explanations whose
\* issues have suggestions, and the fallback changed the text.
C10_Witness ==
    /\ InCorrectedBranch /\ model_reply = "timeout" /\ Returned
    /\ ~request.include_explanations
    /\ GenerateBasicExplanations(issues) # <<>>
    /\ response[1].corrected_text # request.text

\* C11: in the no-issues branch, when the model call fails, returns nothing or
\* gives a reply that cannot be decoded, process returns the original text with
\* no issues, rewrites or explanations, validation_passed = true and
\* fallback_used = false, and the validator is not called.
C11_NoIssuesModelFailure ==
    (InNoIssuesBranch /\ ModelFailed) =>
        /\ Returned
        /\ response[1].original_text = request.text
        /\ response[1].corrected_text = request.text
        /\ response[1].issues = <<>>
        /\ response[1].rewrites = <<>>
        /\ response[1].explanations = <<>>
        /\ response[1].validation_passed
        /\ ~response[1].fallback_used
        /\ validation = None /\ rechecked = None
        /\ calls = <<"rule_check", "model">>

\* C11 witness: an undecodable model reply in the no-issues branch of a style
\* request that asked for explanations.
C11_Witness ==
    /\ InNoIssuesBranch /\ model_reply = "bad_json" /\ Returned
    /\ request.mode = "style" /\ request.include_explanations

\* C12: in the no-issues branch the response's corrected_text differs from the
\* original text only when the model's corrected_text differs from it and the
\* validator, run on the model's text against an empty original-issue list,
\* accepted it (its re-check succeeded and reported no issue); when that
\* validation fails or the re-check itself fails, corrected_text is the original
\* text.
C12_NoIssuesCorrectedText ==
    (Returned /\ InNoIssuesBranch) =>
        /\ response[1].corrected_text # request.text =>
               /\ llm_response # None
               /\ llm_response[1].corrected_text # request.text
               /\ response[1].corrected_text = llm_response[1].corrected_text
               /\ rechecked # None /\ rechecked[1].status = "ok"
               /\ rechecked[1].issues = <<>>
               /\ validation # None /\ validation[1].is_valid
        /\ (rechecked # None /\ (validation = None \/ ~validation[1].is_valid)) =>
               response[1].corrected_text = request.text
        /\ (rechecked # None /\ rechecked[1].status # "ok") =>
               response[1].corrected_text = request.text

\* C12 witness: the model's changed text was accepted and returned.
C12_Witness ==
    /\ Returned /\ InNoIssuesBranch
    /\ response[1].corrected_text # request.text
    /\ validation # None /\ validation[1].is_valid

\* The order of the backend calls of one request.
CallOrder == <<"rule_check", "model", "recheck">>

\* C13: the backend calls of a request are issued in the order initial rule
\* check, model call, rule re-check: the model is called only after the initial
\* check returned successfully, and the re-check only after the model's reply
\* was received and decoded.
C13_CallsInOrder ==
    /\ Len(calls) <= Len(CallOrder)
    /\ calls = SubSeq(CallOrder, 1, Len(calls))
    /\ Len(calls) >= 2 => initial_check = "ok"
    /\ Len(calls) >= 3 => (model_reply = "json" /\ llm_response # None)
    /\ awaiting # "none" => (calls # <<>> /\ calls[Len(calls)] = awaiting)

\* C13 witness: a request for which all three calls were made.
C13_Witness == calls = CallOrder /\ Returned /\ InCorrectedBranch

\* C14: process never retries a backend call: each of the three calls is issued
\* at most once per request, and after a call failed or timed out no further
\* call is issued.
C14_NoRetry ==
    /\ \A k \in {"rule_check", "model", "recheck"} :
           Cardinality({i \in 1..Len(calls) : calls[i] = k}) <= 1
    /\ initial_check \in {"lt_error", "raised"} =>
           (calls = <<"rule_check">> /\ awaiting = "none")
    /\ ModelFailed => (calls = <<"rule_check", "model">> /\ awaiting = "none")
    /\ rechecked # None => (calls = CallOrder /\ awaiting = "none")

\* C14 witness: the model call timed out in the corrected branch and process
\* returned after two calls.
C14_Witness ==
    /\ InCorrectedBranch /\ model_reply = "timeout" /\ Returned
    /\ calls = <<"rule_check", "model">>

\* A response without its explanations.
WithoutExplanations(r) == [r EXCEPT !.explanations = <<>>]

\* C15: the run of process on the request with include_explanations negated and
\* the same backend replies returns exactly when this run returns, and its
\* response is equal in every field except explanations; the run whose
\* include_explanations is false has explanations = [] in every branch.
C15_IncludeExplanationsGatesOnlyExplanations ==
    /\ (response = None) <=> (twin = None)
    /\ Returned =>
           /\ WithoutExplanations(response[1]) = WithoutExplanations(twin[1])
           /\ ~request.include_explanations => response[1].explanations = <<>>
           /\ request.include_explanations => twin[1].explanations = <<>>

\* C15 witness: an accepted model reply with explanations, returned with them to
\* the request that asked for them and without them to its twin.
C15_Witness ==
    /\ Returned /\ InCorrectedBranch /\ ~response[1].fallback_used
    /\ request.include_explanations
    /\ response[1].explanations # <<>>
    /\ twin[1].explanations = <<>>

\* C16: every response with fallback_used = true has rewrites = [], also in
\* style mode and when the rejected model reply contained rewrites.
C16_FallbackHasNoRewrites ==
    (Returned /\ response[1].fallback_used) => response[1].rewrites = <<>>

\* C16 witness: a style request whose model reply carried a rewrite and was
\* rejected by the validator.
C16_Witness ==
    /\ Returned /\ response[1].fallback_used
    /\ request.mode = "style"
    /\ llm_response # None /\ llm_response[1].rewrites # <<>>
    /\ validation # None /\ ~validation[1].is_valid

\* A deterministic rule backend answers the same text the same way: when the
\* model's text is the request's text, the re-check repeats the initial check.
DeterministicBackend ==
    (rechecked # None /\ llm_response # None /\ llm_response[1].corrected_is_str
        /\ llm_response[1].corrected_text = request.text) =>
        rechecked[1] = [status |-> "ok", issues |-> issues]

\* What the rule backend answered for a text it was asked about in this run.
RecordedCheck(text) ==
    IF text = request.text THEN [status |-> "ok", issues |-> issues]
    ELSE rechecked[1]

\* C17: for every response with fallback_used = false, validating the
\* response's corrected_text against the response's issues with the same
\* deterministic rule backend is accepted: the check of that text succeeds,
\* has no issue that is not similar to one of the response's issues, and has at
\* most as many issues as the response; in the corrected branch and in the
\* no-issues branch.
C17_AcceptedRevalidates ==
    (Returned /\ ~response[1].fallback_used /\ DeterministicBackend) =>
        /\ response[1].corrected_text # request.text =>
               /\ rechecked # None /\ llm_response # None
               /\ response[1].corrected_text = llm_response[1].corrected_text
        /\ LET checked == RecordedCheck(response[1].corrected_text)
           IN /\ checked.status = "ok"
              /\ TrulyNewCount(checked.issues, response[1].issues, TRUE) <= max_new_issues
              /\ Len(checked.issues) <= Len(response[1].issues)

\* C17 witness: an accepted model text, different from the original, whose
\* re-check still reported an issue.
C17_Witness ==
    /\ Returned /\ ~response[1].fallback_used /\ InCorrectedBranch
    /\ DeterministicBackend
    /\ response[1].corrected_text # request.text
    /\ rechecked[1].issues # <<>>

\* The order the claim gives to two issues of the fallback computation: the
\* higher offset first, at the same offset the larger length first, and issues
\* equal in both in input order (a and b are positions in the input list).
AppliedBefore(issue_list, a, b) ==
    \/ issue_list[a].offset > issue_list[b].offset
    \/ /\ issue_list[a].offset = issue_list[b].offset
       /\ issue_list[a].length > issue_list[b].length
    \/ /\ issue_list[a].offset = issue_list[b].offset
       /\ issue_list[a].length = issue_list[b].length
       /\ a < b

\* The orders of 1..n that follow AppliedBefore.
LongerFirstOrders(issue_list) ==
    {order \in [1..Len(issue_list) -> 1..Len(issue_list)] :
        /\ \A i, j \in 1..Len(issue_list) : i # j => order[i] # order[j]
        /\ \A i, j \in 1..Len(issue_list) :
               i < j => AppliedBefore(issue_list, order[i], order[j])}

\* The fallback text was computed from the issues of this run.
FallbackComputed == InCorrectedBranch /\ pc # "RuleChecked"

\* C18: when two issues of the fallback computation share an offset the one
\* with the larger length is applied first, and issues equal in offset and
\* length are applied in input order.  (The statement of the claim; the code
\* sorts on the offset alone, so same-offset issues keep their input order
\* whatever their lengths.)
C18_SameOffsetLongerFirst ==
    FallbackComputed =>
        \E order \in LongerFirstOrders(issues) :
            /\ SortedIssues(issues) = [k \in 1..Len(issues) |-> issues[order[k]]]
            /\ fallback_text = ReplaceInOrder(request.text, issues, order, 1)

\* The change of length the replacements of the issues 1..j that start before
\* issue i make in front of it.
RECURSIVE ShiftBefore(_, _, _)
ShiftBefore(issue_list, i, j) ==
    IF j = 0 THEN 0
    ELSE ShiftBefore(issue_list, i, j - 1)
         + (IF j # i /\ issue_list[j].suggestions # <<>>
               /\ issue_list[j].offset < issue_list[i].offset
            THEN Len(issue_list[j].suggestions[1]) - issue_list[j].length
            ELSE 0)

\* The position issue i was moved to by the replacements in front of it.
MovedOffset(issue_list, i) == issue_list[i].offset + ShiftBefore(issue_list, i, Len(issue_list))

\* The result has the first suggestion of issue i at the position it moved to.
SuggestionInPlace(text, issue_list, i) ==
    LET pos == MovedOffset(issue_list, i)
    IN pos >= 0 /\ Slice(text, pos, pos + Len(issue_list[i].suggestions[1]))
                     = issue_list[i].suggestions[1]

\* C19: after the fallback applied the replacements of the issues in descending
\* offset order, the result has at the position each issue was moved to the
\* issue's first suggestion, and no original span that had a suggestion is left
\* in the result.  (The statement of the claim; with overlapping issues the
\* later replacement overwrites the earlier one.)
C19_NoResidualSpan ==
    FallbackComputed =>
        \A i \in 1..Len(issues) :
            issues[i].suggestions # <<>> =>
                /\ SuggestionInPlace(fallback_text, issues, i)
                /\ issues[i].original_text # <<>> =>
                       Find(fallback_text, issues[i].original_text) = -1

\* The spans of the issues that have a suggestion lie inside the text and no
\* two of them overlap.
DisjointSpans(text, issue_list) ==
    /\ \A i \in 1..Len(issue_list) :
           issue_list[i].suggestions # <<>> =>
               issue_list[i].offset + issue_list[i].length <= Len(text)
    /\ \A i, j \in 1..Len(issue_list) :
           (i < j /\ issue_list[i].suggestions # <<>> /\ issue_list[j].suggestions # <<>>) =>
               \/ issue_list[i].offset + issue_list[i].length <= issue_list[j].offset
               \/ issue_list[j].offset + issue_list[j].length <= issue_list[i].offset

\* What holds of the fallback: for issues whose spans do not overlap, every
\* first suggestion is in place in the result.
DisjointFixesInPlace ==
    (FallbackComputed /\ DisjointSpans(request.text, issues)) =>
        \A i \in 1..Len(issues) :
            issues[i].suggestions # <<>> => SuggestionInPlace(fallback_text, issues, i)

\* The similarity of two issues as the claim states it.
SimilarPair(a, b) ==
    \/ (a.rule_id = b.rule_id /\ Lower(a.original_text) = Lower(b.original_text))
    \/ a.original_text = b.original_text

\* An issue at another offset.
MovedTo(issue, offset) == [issue EXCEPT !.offset = offset]

\* Offsets an issue is moved to.
Offsets == 0..3

\* C20: _is_similar_issue answers true exactly when some original issue has the
\* same rule_id and the same span up to case, or exactly the same span; moving
\* the issue or the original issues to other offsets never changes the answer.
C20_SimilarityIgnoresOffsets ==
    (result # None /\ result[1].fn = "is_similar_issue") =>
        LET issue    == result[1].issue
            original == call[1].original_issues
        IN /\ result[1].similar <=>
                  \E k \in 1..Len(original) : SimilarPair(issue, original[k])
           /\ \A o \in Offsets :
                  /\ IsSimilarIssue(MovedTo(issue, o), original) = result[1].similar
                  /\ IsSimilarIssue(issue, [k \in 1..Len(original) |->
                                               MovedTo(original[k], o)]) = result[1].similar

\* C20 witness: an issue found similar to an original issue that has the same
\* rule, a span equal only up to case and another offset.
C20_Witness ==
    /\ result # None /\ result[1].fn = "is_similar_issue"
    /\ result[1].similar
    /\ \A k \in 1..Len(call[1].original_issues) :
           /\ call[1].original_issues[k].offset # result[1].issue.offset
           /\ call[1].original_issues[k].original_text # result[1].issue.original_text

\* An issue lies in a text: its span is inside the text and is what the text
\* has there.
IssueWithinText(issue, text) ==
    /\ 0 <= issue.offset
    /\ issue.offset + issue.length <= Len(text)
    /\ issue.original_text = Slice(text, issue.offset, issue.offset + issue.length)

\* C21: every issue of every response, built by the rule client from a provider
\* match or converted from a model explanation in the no-issues branch, has
\* 0 <= offset, offset + length <= len(original_text) and as span the
\* characters of original_text at offset .. offset + length.  (The statement of
\* the claim; neither constructor checks the span against the text.)
C21_IssuesLieInText ==
    Returned =>
        \A i \in 1..Len(response[1].issues) :
            IssueWithinText(response[1].issues[i], response[1].original_text)

HasSuggestion(issue) == issue.suggestions # <<>>

\* C22: when the fallback is used in the corrected branch, the explanations
\* before gating by include_explanations are one per original issue that has a
\* suggestion, in issue order, with original = the issue's span, corrected =
\* its first suggestion and reason = its message; an issue without suggestions
\* gets no explanation and makes no change to the fallback text.
C22_FallbackExplanations ==
    (Returned /\ InCorrectedBranch /\ response[1].fallback_used) =>
        LET ungated == IF request.include_explanations THEN response[1].explanations
                       ELSE twin[1].explanations
            fixable == SelectSeq(issues, HasSuggestion)
        IN /\ Len(ungated) = Len(fixable)
           /\ \A k \in 1..Len(fixable) :
                  /\ ungated[k].original = fixable[k].original_text
                  /\ ungated[k].corrected = fixable[k].suggestions[1]
                  /\ ungated[k].reason = fixable[k].message
           /\ response[1].corrected_text = ApplyRuleBasedFixes(request.text, fixable)
           /\ fixable = <<>> => response[1].corrected_text = request.text

\* C22 witness: the fallback was used for an issue without suggestions and an
\* issue with two suggestions.
C22_Witness ==
    /\ Returned /\ InCorrectedBranch /\ response[1].fallback_used
    /\ \E i, j \in 1..Len(issues) :
           issues[i].suggestions = <<>> /\ Len(issues[j].suggestions) = 2
    /\ request.include_explanations
    /\ Len(response[1].explanations) = 1

\* C23: every failure of the rule client's check (timeout, HTTP error, network
\* error, malformed body, matches with invalid values) reaches the caller as
\* LanguageToolError and as no other exception: neither the initial check nor
\* the re-check ends with another exception.  (The statement of the claim;
\* _parse_matches runs outside the try block of check_text.)
C23_OnlyLanguageToolError ==
    /\ initial_check # "raised"
    /\ rechecked # None => rechecked[1].status # "raised"

\* C26: every response has issue_count = len(issues), in every branch; so has
\* the response of the twin run.
C26_IssueCountIsLen ==
    Returned =>
        /\ response[1].issue_count = Len(response[1].issues)
        /\ twin[1].issue_count = Len(twin[1].issues)

\* C26 witness: a response of the no-issues branch with issues converted from
\* the model's explanations.
C26_Witness ==
    /\ Returned /\ InNoIssuesBranch
    /\ response[1].issues # <<>> /\ response[1].issue_count > 0

\* C27: process never changes the request, and every response has as
\* original_text the text of the request, in every branch and whatever the
\* backends return.
C27_OriginalTextIsRequestText ==
    /\ [][request' = request]_vars
    /\ [](Returned => response[1].original_text = request.text)

\* C27 witness: a response whose corrected text differs from the request's
\* text while original_text is that text.
C27_Witness ==
    /\ Returned
    /\ response[1].corrected_text # request.text
    /\ response[1].original_text = request.text

Decoded == result # None /\ result[1].fn = "_parse_response"

\* The rewrite the decoder builds from a well-formed entry.
KeptRewrite(entry) == WellFormedEntry(entry) /\ 0 <= entry.score /\ entry.score <= MaxScore

\* C24: _parse_response never raises: it returns absence or an LLMResponse;
\* absence when the reply has no {...} span or the span cannot be parsed, and
\* for a parsed object the corrected text, the rewrites and the explanations,
\* where an entry of rewrites or explanations that is not well formed is dropped
\* and every other entry is kept, in order.
C24_DecodeNeverRaises ==
    Decoded =>
        LET content  == call[1].content
            returned == result[1].returned
        IN /\ ~result[1].raised
           /\ content.kind \in {"no_json", "bad_json"} => returned = None
           /\ content.kind = "json" =>
                  /\ returned # None
                  /\ returned[1].corrected_text =
                         IF content.has_corrected THEN content.corrected_text
                         ELSE call[1].original_text
                  /\ returned[1].rewrites = SelectSeq(content.rewrites, KeptRewrite)
                  /\ Len(returned[1].explanations) =
                         Len(SelectSeq(content.explanations, WellFormedEntry))
                  /\ \A k \in 1..Len(returned[1].explanations) :
                         LET exp == SelectSeq(content.explanations, WellFormedEntry)[k]
                         IN /\ returned[1].explanations[k].span = exp.span
                            /\ returned[1].explanations[k].corrected = exp.corrected
                            /\ returned[1].explanations[k].reason = exp.reason

\* C24 witness: a reply with a malformed rewrite entry and a malformed
\* explanation entry, decoded to the well-formed entries.
C24_Witness ==
    /\ Decoded /\ result[1].returned # None
    /\ \E i \in 1..Len(call[1].content.rewrites) :
           ~WellFormedEntry(call[1].content.rewrites[i])
    /\ \E i \in 1..Len(call[1].content.explanations) :
           ~WellFormedEntry(call[1].content.explanations[i])
    /\ Len(result[1].returned[1].rewrites) = 2
    /\ Len(result[1].returned[1].explanations) = 1

\* A score brought into [0, 10].
Clamp(score) == IF score < 0 THEN 0 ELSE IF score > MaxScore THEN MaxScore ELSE score

\* C25: a rewrite entry whose score is a number outside [0, 10] is kept by the
\* decoder with its score clamped into [0, 10]: the decoded rewrites are the
\* well-formed entries, in order, with clamped scores.  (The statement of the
\* claim; the decoder drops such an entry.)
C25_ScoreClamped ==
    (Decoded /\ result[1].returned # None) =>
        LET entries == SelectSeq(call[1].content.rewrites, WellFormedEntry)
        IN result[1].returned[1].rewrites =
               [k \in 1..Len(entries) |-> [entries[k] EXCEPT !.score = Clamp(entries[k].score)]]

\* process was called on a request built from the body.
ProcessInvoked == call # None /\ pc = "Start"

\* C28: every successfully constructed CheckRequest, which is what process
\* receives, has a stored text with 1 <= len(text) <= max_text_length, and the
\* stored text is the input with the blanks at both ends stripped.  (The
\* statement of the claim; min_length is checked before the text is stripped.)
C28_StoredTextLength ==
    ProcessInvoked =>
        /\ text_min_length <= TextLen(request.text)
        /\ TextLen(request.text) <= max_text_length
        /\ request.text = StripText(call[1].text)

\* C29 as stated: a /check request whose language after lower-casing is not a
\* supported code, or whose text is longer than max_text_length, is rejected
\* and process is not invoked for it, so no backend call is made.
C29_RejectedAfterLowerCasing ==
    (call # None /\ (Lower(call[1].language) \notin SUPPORTED_LANGUAGES
                     \/ TextLen(call[1].text) > max_text_length)) =>
        /\ pc \in {"Boundary", "Handler", "Rejected"}
        /\ calls = <<>> /\ awaiting = "none"

\* C29 as amended: the same for a language that, after lower-casing and
\* stripping of surrounding blanks, is not a supported code.
C29_RejectedAfterNormalizing ==
    (call # None /\ (Strip(Lower(call[1].language)) \notin SUPPORTED_LANGUAGES
                     \/ TextLen(call[1].text) > max_text_length)) =>
        /\ pc \in {"Boundary", "Handler", "Rejected"}
        /\ calls = <<>> /\ awaiting = "none"
        /\ pc = "Handler" => ~ENABLED (CheckGrammar /\ pc' = "Start")

\* C29 witness: a request in an unsupported language was built and then
\* rejected by the handler with status 400.
C29_Witness ==
    /\ call # None /\ pc = "Rejected" /\ result = Some([status |-> 400])
    /\ call[1].language = <<"x", "x">>
    /\ calls = <<>>

\* The call of process(req) run alone from state st on the replies `replies`.
RECURSIVE RunAlone(_, _)
RunAlone(st, replies) ==
    IF Done(st) THEN st
    ELSE IF st.awaiting = "none" THEN RunAlone(StepProcess(st, NoContent("none")), replies)
    ELSE IF replies = <<>> THEN st
    ELSE RunAlone(StepProcess(st, Head(replies)), Tail(replies))

\* The state of process in Spec, as a call's state.
ProcessState ==
    [pc |-> pc, awaiting |-> awaiting, request |-> request, issues |-> issues,
     fallback_text |-> fallback_text, llm_response |-> llm_response,
     validation |-> validation, response |-> response, calls |-> calls]

\* The steps of a call are the steps of process in Spec.
StepsAreActions ==
    [][\E reply \in (CASE awaiting = "rule_check" -> LTReplies(InitialMatches)
                        [] awaiting = "model" -> LLMReplies
                        [] awaiting = "recheck" -> LTReplies(RecheckMatches)
                        [] OTHER -> {NoContent("none")}) :
          ProcessState' = StepProcess(ProcessState, reply)]_vars

\* C30: concurrent calls of process do not interfere: however the steps of two
\* calls interleave at their suspension points, a call that has returned (or
\* raised) is in the state it reaches when run alone on the replies it
\* received, with the same response, and no step has changed the object the
\* calls share.
C30_ConcurrentCallsDoNotInterfere ==
    pipeline # None =>
        /\ pipeline = ThePipeline
        /\ \A c \in Callers :
               Done(running[c].st) =>
                   LET alone == RunAlone(InitialState(running[c].st.request),
                                         running[c].received)
                   IN /\ alone.pc = running[c].st.pc
                      /\ alone.response = running[c].st.response
                      /\ alone = running[c].st

\* C30 witness: both calls returned, one with the fallback text and one with
\* the model's text, on different issues, and the second call ran between two
\* steps of the first.
C30_Witness ==
    /\ pipeline # None
    /\ \E i, j, k \in DOMAIN calls :
           i < j /\ j < k /\ calls[i] = "c1" /\ calls[j] = "c2" /\ calls[k] = "c1"
    /\ running["c1"].st.pc = "Final" /\ running["c2"].st.pc = "Final"
    /\ running["c1"].st.response[1].fallback_used
    /\ ~running["c2"].st.response[1].fallback_used
    /\ running["c1"].st.issues # running["c2"].st.issues
    /\ running["c2"].st.issues # <<>>

\* The response's two flags.
Flags(resp) == <<resp.validation_passed, resp.fallback_used>>

C38_CorrectedIssuesAreInitialIssues ==
    (Returned /\ InCorrectedBranch) =>
        /\ response[1].issues = issues
        /\ twin[1].issues = issues

\* C38 witness: the corrected branch returned the fallback after a re-check that
\* found an issue the initial check had not found.
C38_Witness ==
    /\ Returned /\ InCorrectedBranch
    /\ rechecked # None /\ rechecked[1].status = "ok"
    /\ rechecked[1].issues # <<>> /\ rechecked[1].issues # issues
    /\ validation # None /\ validation[1].new_issues # <<>>
    /\ response[1].fallback_used
    /\ response[1].issues = issues

\* The order of process's states.
StateRank(p) ==
    CASE p = "Start" -> 0
      [] p = "RuleChecked" -> 1
      [] p \in {"NoIssues", "Corrected"} -> 2
      [] OTHER -> 3

\* C39: every request terminates: when every backend call returns, fails or
\* times out, process reaches Final and emits a response, and its state never
\* moves back (Start, RuleChecked, one of NoIssues and Corrected, Final).
\* (The statement of the claim; a call of process that raises emits none.)
C39_ReachesFinal ==
    /\ <>(pc = "Final" /\ response # None)
    /\ [][StateRank(pc') >= StateRank(pc) /\ (response # None => response' = response)]_vars

\* The sub-list of xs at the indices in S, in order.
RECURSIVE SubListAt(_, _, _)
SubListAt(xs, S, i) ==
    IF i > Len(xs) THEN <<>>
    ELSE (IF i \in S THEN <<xs[i]>> ELSE <<>>) \o SubListAt(xs, S, i + 1)

SubLists(xs) == {SubListAt(xs, S, 1) : S \in SUBSET (1..Len(xs))}

\* C32: for fixed original_issues acceptance is monotone in the re-check result:
\* when validate_correction accepts a candidate whose re-check returned N, it
\* accepts every candidate whose re-check returns a sub-list of N.
C32_AcceptanceMonotone ==
    (/\ result # None /\ result[1].fn = "validate_correction"
     /\ call[1].checked.status = "ok" /\ result[1].verdict.is_valid)
    => \A sub \in SubLists(call[1].checked.issues) :
           ValidateCorrection([status |-> "ok", issues |-> sub],
                              call[1].original_issues, call[1].strict).is_valid

\* C32 witness: an accepted re-check result of two issues (so with proper
\* sub-lists), as many as the original's.
C32_Witness ==
    /\ result # None /\ result[1].fn = "validate_correction"
    /\ call[1].checked.status = "ok" /\ result[1].verdict.is_valid
    /\ Len(call[1].checked.issues) = 2 /\ Len(call[1].original_issues) = 2

\* No value occurs twice in xs.
Distinct(xs) == \A i, j \in 1..Len(xs) : xs[i] = xs[j] => i = j

\* C33: for every issue the rule client builds from a provider match,
\* suggestions is the list of the match's first five replacement values (all of
\* them when there are fewer) in the provider's order, and holds no value twice.
\* (The statement of the claim; the client does not remove repeated values.)
C33_SuggestionsFirstFiveDistinct ==
    (result # None /\ result[1].fn = "_parse_matches" /\ ~result[1].parsed.raised) =>
        \A i \in 1..Len(call[1].matches) :
            LET given == call[1].matches[i].replacements
                kept  == result[1].parsed.issues[i].suggestions
            IN /\ Len(kept) = Min(MaxSuggestions, Len(given))
               /\ \A k \in 1..Len(kept) : kept[k] = given[k]
               /\ Distinct(kept)

\* C31: when the client cancels a request while process is suspended in a
\* backend call, the error handling of that stage does not swallow the
\* cancellation: from then on no backend call is made for the request and no
\* CheckResponse is emitted.
C31_CancellationNotSwallowed ==
    /\ [](cancelled => pc = "Cancelled" /\ response = None)
    /\ [][cancelled' => calls' = calls /\ response' = None]_vars

\* C31 witness: the request was cancelled during the re-check of the corrected
\* branch.
C31_Witness ==
    /\ cancelled /\ pc = "Cancelled"
    /\ calls = <<"rule_check", "model", "recheck">>
    /\ issues # <<>> /\ llm_response # None /\ response = None

\* The last call of the cache.
LastCall == history.last[1]
AfterCall(op) == threads = None /\ cache # None /\ history.last # None /\ LastCall.op = op

\* C34: after cache.set(text, language, value, mode), a get with the same
\* (text, language, mode) within ttl seconds and before the entry is evicted,
\* invalidated or cleared returns that value; a get for a (text, language, mode)
\* that was never set, or one that differs in language from those set, returns
\* None.  (The statement of the claim; two triples can have one key.)
C34_GetAfterSet ==
    AfterCall("get") =>
        /\ (LastCall.wrote # None /\ LastCall.at - LastCall.wrote[1].at <= cache.ttl)
               => LastCall.ret = LastCall.wrote[1].value
        /\ LastCall.triple[1] \notin history.ever_set => LastCall.ret = None
        /\ (\A t \in history.ever_set : t.language # LastCall.triple[1].language)
               => LastCall.ret = None

\* C35 as stated: after any calls of get, set, invalidate, clear and
\* cleanup_expired by any threads, hits + misses is the number of completed
\* gets, each get counted once: as a hit when it returned a value and as a miss
\* when it returned None.  (The statement of the claim; a get that finds a
\* stored None returns None and is counted as a hit.)
C35_HitsAreReturnedValues ==
    threads # None =>
        /\ cache._stats.hits + cache._stats.misses = history.gets
        /\ cache._stats.hits = history.returned_value
        /\ cache._stats.misses = history.gets - history.returned_value

\* C35: after any calls of get, set, invalidate, clear and cleanup_expired by
\* any threads in any interleaving, hits + misses is the number of completed
\* gets, each get counted once: as a hit when it found an entry that has not
\* expired (whose value it returned, None when None was stored), as a miss
\* otherwise.
C35_HitsPlusMissesAreGets ==
    threads # None =>
        /\ cache._stats.hits + cache._stats.misses = history.gets
        /\ cache._stats.hits = history.found
        /\ cache._stats.misses = history.gets - history.found

\* C35 witness: a get that found an entry is between the load and the store of
\* the hit count while a get of the other thread waits for the lock.
C35_Witness ==
    /\ threads # None
    /\ \E a, b \in CacheThreads :
           /\ threads[a].pc = "store" /\ threads[a].counter = "hits"
           /\ threads[b].pc = "waiting" /\ threads[b].op = "get"

\* C36: the number of stored entries never exceeds max_entries (max_entries >=
\* 1); a set made at capacity evicts entries with the oldest write timestamps
\* only (no entry is evicted while an entry with an earlier timestamp is kept,
\* and nothing is evicted below capacity), and the newly set entry is present
\* after the set.
C36_BoundedOldestEvicted ==
    (threads = None /\ cache # None) =>
        /\ Len(cache._cache) <= cache.max_entries
        /\ (history.last # None /\ LastCall.op = "set") =>
               LET before == LastCall.before._cache
                   gone   == LastCall.removed
                   i      == IndexOf(cache._cache, KeyOf(LastCall.triple[1]))
               IN /\ i # 0
                  /\ cache._cache[i].value = LastCall.value
                  /\ cache._cache[i].timestamp = LastCall.at
                  /\ gone # {} => Len(before) >= cache.max_entries
                  /\ gone \subseteq Keys(before)
                  /\ \A x, y \in 1..Len(before) :
                         (before[x].key \in gone /\ before[y].key \notin gone)
                             => before[x].timestamp <= before[y].timestamp
                  /\ Keys(cache._cache) = (Keys(before) \ gone) \cup {KeyOf(LastCall.triple[1])}

\* C36 witness: a set on the full cache of twenty entries evicted two entries and
\* kept entries written later than those.
C36_Witness ==
    /\ AfterCall("set")
    /\ Cardinality(LastCall.removed) = 2
    /\ Len(cache._cache) = cache.max_entries - 1
    /\ \E x, y \in 1..Len(LastCall.before._cache) :
           /\ LastCall.before._cache[x].key \in LastCall.removed
           /\ LastCall.before._cache[y].key \notin LastCall.removed
           /\ x > y
           /\ LastCall.before._cache[x].timestamp < LastCall.before._cache[y].timestamp

\* C40: get never returns a value whose entry was written more than ttl seconds
\* before the get: such an entry is removed by that get, the get returns None
\* and counts a miss; and an entry that is read keeps its timestamp.
C40_NoStaleValue ==
    AfterCall("get") =>
        LET before == LastCall.before
            key    == KeyOf(LastCall.triple[1])
            i      == IndexOf(before._cache, key)
            j      == IndexOf(cache._cache, key)
        IN /\ LastCall.found =>
                 /\ i # 0 /\ LastCall.at - before._cache[i].timestamp <= before.ttl
                 /\ j # 0 /\ cache._cache[j].timestamp = before._cache[i].timestamp
                 /\ LastCall.ret = before._cache[i].value
           /\ (i # 0 /\ LastCall.at - before._cache[i].timestamp > before.ttl) =>
                 /\ ~LastCall.found /\ LastCall.ret = None
                 /\ j = 0
                 /\ cache._stats.misses = before._stats.misses + 1
                 /\ cache._stats.hits = before._stats.hits

\* C40 witness: a get found an entry written more than ttl seconds before and
\* removed it.
C40_Witness ==
    /\ AfterCall("get")
    /\ LastCall.removed = {KeyOf(LastCall.triple[1])}
    /\ ~LastCall.found

====
